---- MODULE Spec2Model ----
(***************************************************************************)
(* PanGo capture orchestration: the admission layer of internal/web        *)
(* (Handlers.HandleRun, Handlers.HandleCancel, the run goroutine and its   *)
(* deferred cleanup), the StatusBroadcaster fan-out and the status-stream  *)
(* observers.  Every lock region of the Go code is one atomic action.      *)
(*                                                                         *)
(* Specifications:                                                         *)
(*   Spec      the orchestrator with status-stream observers and an        *)
(*             abstract sequencer                                          *)
(*   CoreSpec  the same without observers; FairSpec adds the fairness of   *)
(*             the run goroutine                                           *)
(*   SeqSpec   one call of Sequence.RunGridShot, statement by statement    *)
(*   BcSpec    the StatusBroadcaster with concurrent producers, the range  *)
(*             loop of Broadcast taken one send at a time                  *)
(*   GeoSpec   main and executeCapture: the configuration file, the        *)
(*             overrides and the grid plan computed from them              *)
(*   HwSpec    motion.Controller on two steppers, Stepper.MoveSteps taken  *)
(*             one GPIO write at a time, Stepper.Enable and Disable        *)
(*   SrvSpec   the orchestrator as served through the routes of Server.Mux *)
(***************************************************************************)
EXTENDS Integers, Sequences, FiniteSets, TLC

(* ------------------------------ bounds -------------------------------- *)
\* number of POST /run requests issued in a behaviour
MaxReq == 3
\* number of POST /cancel requests issued in a behaviour
MaxCancel == 2
\* the clock (seconds) stops advancing here
MaxTime == 5
\* boundary-checked loop iterations of one sequencer run
SeqIters == 1
\* number of status-stream observers
NumObs == 1
\* largest number of columns and of rows of a grid plan
MaxCols == 3
MaxRows == 3
\* goroutines that call Broadcast, and the calls each makes
NumProd == 2
MaxMsgs == 2
\* observers of the broadcaster taken alone, and the messages each reads
NumSubs == 2
MaxRecv == 2
\* Start requests served by one program run
MaxRuns == 2

(* ------------------------- program constants -------------------------- *)
\* handlers.go:21  const minDelayBetweenCaptures = 5 * time.Second
minDelayBetweenCaptures == 5
\* broadcaster.go:33  ch := make(chan string, 64)
ChanCap == 64
\* time.Since of the zero time.Time saturates at the maximum Duration, about
\* 292 years; in seconds that exceeds this value, the largest the checker holds
MaxDuration == 2147483647
\* the zero value of time.Time (Handlers.lastCaptureAt before any capture)
ZeroTime == -1

Reqs == 1..MaxReq
Cancels == 1..MaxCancel
Obs == 1..NumObs
Producers == 1..NumProd
Subs == 1..NumSubs

\* float64 values: k is "fin", "nan" or "inf"; a finite value n counts half
\* units (2 is 1.0, 1 is 0.5, 720 is 360.0); an infinity carries its sign in n
Fin(n) == [k |-> "fin", n |-> n]
NaN == [k |-> "nan", n |-> 0]
PosInf == [k |-> "inf", n |-> 1]
NegInf == [k |-> "inf", n |-> -1]

\* math.IsNaN, math.IsInf(x, 0)
IsNaN(x) == x.k = "nan"
IsInf(x) == x.k = "inf"

VARIABLES
    RunCapture,      \* Handlers.RunCapture: "nil" or "fn"
    running,         \* Handlers.running
    lastCaptureAt,   \* Handlers.lastCaptureAt
    captureCancel,   \* Handlers.captureCancel: 0 is nil, else the run's ctx
    now,             \* wall clock, seconds
    hpc,             \* position of each HandleRun call
    status,          \* HTTP status written by each HandleRun call (0: none)
    cpc,             \* position of each HandleCancel call
    clocal,          \* HandleCancel's local copy of h.captureCancel
    cstatus,         \* HTTP status written by each HandleCancel call
    gpc,             \* position of each run goroutine
    seqpc,           \* position of the sequencer inside RunCapture
    iter,            \* loop iterations the sequencer has completed
    result,          \* value returned by RunCapture
    ctxDone,         \* ctx.Done() is closed (cancel() was called)
    clients,         \* StatusBroadcaster.clients
    chan,            \* buffered channel of each observer
    closed,          \* the observer's channel has been closed
    opc,             \* position of each HandleStatusStream call
    delivered,       \* events each observer has read from its channel
    published,       \* history: every Broadcast call, in order
    snap,            \* history: admission state when a request took the flag
    holder,          \* history: request that set running to true last
    blockedBy,       \* history: holder of the flag when a request got 409
    signalledInRun,  \* history: cancel() was called while RunCapture executed
    acceptedAt,      \* history: clock reading at which each run was accepted
    plan,            \* GridShotParams.GridPlan of the RunGridShot call
    col,             \* RunGridShot: loop variable col
    row,             \* RunGridShot: loop variable row
    spc,             \* position of the RunGridShot call
    ctxErr,          \* ctx.Err() of the context given to RunGridShot
    cancelAt,        \* history: what RunGridShot was doing when ctx was cancelled
    cancelLen,       \* history: calls made when ctx was cancelled (-1: never)
    inflight,        \* the motion or camera call that has not returned yet
    torque,          \* last torque command RunGridShot issued
    shots,           \* number of camera.Shoot calls made
    cmds,            \* history: motion and camera calls made, in order
    shootErr,        \* RunGridShot: the error camera.Shoot returned
    ret,             \* value returned by RunGridShot
    bpc,             \* position of each producer's Broadcast call
    todo,            \* clients the range loop of a Broadcast has yet to visit
    nsent,           \* number of Broadcast calls each producer has made
    tried,           \* history: sends a Broadcast attempted, per client
    received,        \* history: messages each observer has read, in order
    cfg,             \* main: the configuration decoded from the YAML file
    mpc,             \* position of main
    body,            \* overrides of the last capture asked for
    startStatus,     \* HTTP status of the last Start (0: none, or not over HTTP)
    runCfg,          \* executeCapture: cfg, the copy with the overrides applied
    gridPlan,        \* executeCapture: gridPlan, one-element sequence when computed
    captureErr,      \* value returned by the last executeCapture
    nruns,           \* number of Start requests served
    mcall,           \* the Controller method called, with its arguments
    mctl,            \* position inside the Controller method
    mret,            \* value returned by the Controller method
    stp,             \* the Stepper.MoveSteps call under way
    sret,            \* value returned by the last Stepper.MoveSteps
    moves,           \* Stepper.MoveSteps calls made in this call, in order
    writes,          \* gpio.WritePin calls made in this call, in order
    scall,           \* the Stepper method called directly, with its stepper
    enablePin        \* Config.EnablePin of each stepper

vars == <<RunCapture, running, lastCaptureAt, captureCancel, now, hpc, status,
          cpc, clocal, cstatus, gpc, seqpc, iter, result, ctxDone, clients,
          chan, closed, opc, delivered, published, snap, holder, blockedBy,
          signalledInRun, acceptedAt, plan, col, row, spc, ctxErr, cancelAt, cancelLen,
          inflight, torque, shots, cmds, shootErr, ret, bpc, todo, nsent, tried,
          received, cfg, mpc, body, startStatus, runCfg, gridPlan, captureErr,
          nruns, mcall, mctl, mret, stp, sret, moves, writes, scall,
          enablePin>>

webvars == <<RunCapture, running, lastCaptureAt, captureCancel, now, hpc,
             status, cpc, clocal, cstatus, gpc, seqpc, iter, result, ctxDone,
             snap, holder, blockedBy, signalledInRun, acceptedAt>>
hvars == <<hpc, status>>
cvars == <<cpc, clocal, cstatus>>
gvars == <<gpc, seqpc, iter, result>>
bvars == <<clients, chan, closed, opc, delivered>>
admission == <<running, lastCaptureAt, captureCancel>>
ghosts == <<snap, holder, blockedBy, signalledInRun, acceptedAt>>
seqvars == <<plan, col, row, spc, ctxErr, cancelAt, cancelLen, inflight, torque, shots,
             cmds, shootErr, ret>>
geovars == <<cfg, mpc, body, startStatus, runCfg, gridPlan, captureErr, nruns>>
hwvars == <<mcall, mctl, mret, stp, sret, moves, writes, scall, enablePin>>
prodvars == <<bpc, todo, nsent, tried>>
bcvars == <<prodvars, received>>

NoSnap == [running |-> FALSE, last |-> ZeroTime, cancel |-> 0, set |-> FALSE]

\* Handlers after NewHandlers, no request received
InitHandlers ==
    /\ RunCapture \in {"nil", "fn"}
    /\ running = FALSE
    /\ lastCaptureAt = ZeroTime
    /\ captureCancel = 0
    /\ now = 0
    /\ hpc = [r \in Reqs |-> "idle"]
    /\ status = [r \in Reqs |-> 0]
    /\ cpc = [c \in Cancels |-> "idle"]
    /\ clocal = [c \in Cancels |-> 0]
    /\ cstatus = [c \in Cancels |-> 0]
    /\ gpc = [r \in Reqs |-> "none"]
    /\ seqpc = [r \in Reqs |-> "none"]
    /\ iter = [r \in Reqs |-> 0]
    /\ result = [r \in Reqs |-> "none"]
    /\ ctxDone = [r \in Reqs |-> FALSE]
    /\ snap = [r \in Reqs |-> NoSnap]
    /\ holder = 0
    /\ blockedBy = [r \in Reqs |-> 0]
    /\ signalledInRun = [r \in Reqs |-> FALSE]
    /\ acceptedAt = [r \in Reqs |-> ZeroTime]

\* StatusBroadcaster after NewStatusBroadcaster, for the observers O: no
\* client, no Broadcast call in progress
InitBroadcaster(O) ==
    /\ clients = {}
    /\ chan = [o \in O |-> <<>>]
    /\ closed = [o \in O |-> FALSE]
    /\ opc = [o \in O |-> "idle"]
    /\ delivered = [o \in O |-> {}]
    /\ received = [o \in O |-> <<>>]
    /\ published = <<>>
    /\ bpc = [p \in Producers |-> "idle"]
    /\ todo = [p \in Producers |-> {}]
    /\ nsent = [p \in Producers |-> 0]
    /\ tried = [p \in Producers |-> [o \in O |-> 0]]

\* no call of RunGridShot
NoPlan ==
    [PanColumns |-> 0, TiltRows |-> 0, PanStepSize |-> 0, TiltStepSize |-> 0,
     StartPanSteps |-> 0, StartTiltSteps |-> 0]

InitSequence ==
    /\ plan = NoPlan
    /\ col = 0
    /\ row = 0
    /\ spc = "none"
    /\ ctxErr = "nil"
    /\ cancelAt = "never"
    /\ cancelLen = -1
    /\ inflight = "none"
    /\ torque = "enable"
    /\ shots = 0
    /\ cmds = <<>>
    /\ shootErr = "nil"
    /\ ret = "none"

\* web.Overrides{}: no field given
ZeroOverrides == [h |-> Fin(0), v |-> Fin(0), f |-> Fin(0)]

\* main has not read a configuration file
NoMain ==
    /\ cfg = <<>>
    /\ mpc = "none"
    /\ body = ZeroOverrides
    /\ startStatus = 0
    /\ runCfg = <<>>
    /\ gridPlan = <<>>
    /\ captureErr = "none"
    /\ nruns = 0

\* motion.NewController(pan, tilt): no method called yet
NoMove == [axis |-> "none", left |-> 0, at |-> "idle"]
NewController ==
    /\ mcall = [op |-> "none", panSteps |-> 0, tiltSteps |-> 0]
    /\ mctl = "idle"
    /\ mret = "none"
    /\ stp = NoMove
    /\ sret = "none"
    /\ moves = <<>>
    /\ writes = <<>>
    /\ scall = [op |-> "none", axis |-> "none"]

Init ==
    InitHandlers /\ InitBroadcaster(Obs) /\ InitSequence /\ NoMain
    /\ NewController
    /\ enablePin = [a \in {"pan", "tilt"} |-> 0]

(* ------------------------------ clock --------------------------------- *)
\* time.Since(t)
Since(t, clock) == IF t = ZeroTime THEN MaxDuration ELSE clock - t

(* --------------------------- ValidateOverrides ------------------------ *)
\* values below one unit are out of range
ValidateField_FromOne(x, max) ==
    IF IsNaN(x) \/ IsInf(x) THEN "not finite"
    ELSE IF x.n < 2 \/ x.n > 2 * max THEN "out of range"
    ELSE "ok"

\* handlers.go:59-63 for one field with upper limit max (whole units);
\* the nil error is "ok"
ValidateField(x, max) ==
    IF IsNaN(x) \/ IsInf(x) THEN "not finite"
    ELSE IF x.n <= 0 \/ x.n > 2 * max THEN "out of range"
    ELSE "ok"

ValidateOverrides(o) ==
    IF ValidateField(o.h, 360) # "ok" THEN ValidateField(o.h, 360)
    ELSE IF ValidateField(o.v, 180) # "ok" THEN ValidateField(o.v, 180)
    ELSE ValidateField(o.f, 500)

\* request bodies: one field varies at a time around a valid body
ValidBody == [h |-> Fin(360), v |-> Fin(60), f |-> Fin(70)]
Bodies ==
    {[ValidBody EXCEPT !.h = x] : x \in {NaN, Fin(0), Fin(1), Fin(720), Fin(721)}}
    \cup {[ValidBody EXCEPT !.v = x] : x \in {PosInf, Fin(-2), Fin(360), Fin(361)}}
    \cup {[ValidBody EXCEPT !.f = x] : x \in {NegInf, Fin(0), Fin(1000), Fin(1001)}}

(* ------------------------------ HandleRun ----------------------------- *)
\* requests are issued in the order of their numbers
MayBegin(r) == hpc[r] = "idle" /\ (IF r = 1 THEN TRUE ELSE hpc[r - 1] # "idle")

\* the flag is never consulted
AlreadyRunning_Never == FALSE

\* handlers.go:135  if h.running
AlreadyRunning == running

\* handlers.go:118-141: decode, ValidateOverrides, the nil check, and the
\* test-and-set of h.running under runningMu
HandleRun_Admit(r, o) ==
    /\ MayBegin(r)
    /\ IF ValidateOverrides(o) # "ok"
         THEN /\ hpc' = [hpc EXCEPT ![r] = "done"]
              /\ status' = [status EXCEPT ![r] = 400]
              /\ UNCHANGED <<running, snap, holder, blockedBy>>
       ELSE IF RunCapture = "nil"
         THEN /\ hpc' = [hpc EXCEPT ![r] = "done"]
              /\ status' = [status EXCEPT ![r] = 503]
              /\ UNCHANGED <<running, snap, holder, blockedBy>>
       ELSE IF AlreadyRunning
         THEN /\ hpc' = [hpc EXCEPT ![r] = "done"]
              /\ status' = [status EXCEPT ![r] = 409]
              /\ blockedBy' = [blockedBy EXCEPT ![r] = holder]
              /\ UNCHANGED <<running, snap, holder>>
         ELSE /\ running' = TRUE
              /\ hpc' = [hpc EXCEPT ![r] = "checkRate"]
              /\ snap' = [snap EXCEPT ![r] = [running |-> running,
                                              last |-> lastCaptureAt,
                                              cancel |-> captureCancel,
                                              set |-> TRUE]]
              /\ holder' = r
              /\ UNCHANGED <<status, blockedBy>>
    /\ UNCHANGED <<hwvars, geovars, seqvars, bcvars, RunCapture, lastCaptureAt, captureCancel, now, cvars, gvars,
                   ctxDone, bvars, published, signalledInRun, acceptedAt>>

\* d >= 0 in place of d > 0
RateLimited_NonStrict(clock) ==
    minDelayBetweenCaptures - Since(lastCaptureAt, clock) >= 0

\* handlers.go:145  d := minDelayBetweenCaptures - time.Since(h.lastCaptureAt); d > 0
RateLimited(clock) == minDelayBetweenCaptures - Since(lastCaptureAt, clock) > 0

\* the timestamp is written before the interval is tested
HandleRun_CheckRate_Restarts(r, clock) ==
    /\ hpc[r] = "checkRate"
    /\ clock >= now
    /\ now' = clock
    /\ lastCaptureAt' = clock
    /\ IF minDelayBetweenCaptures - Since(lastCaptureAt, clock) > 0
         THEN /\ hpc' = [hpc EXCEPT ![r] = "rateReset"]
              /\ UNCHANGED acceptedAt
         ELSE /\ acceptedAt' = [acceptedAt EXCEPT ![r] = clock]
              /\ hpc' = [hpc EXCEPT ![r] = "start"]
    /\ UNCHANGED <<hwvars, geovars, seqvars, bcvars, RunCapture, running, captureCancel, status, cvars,
                   gvars, ctxDone, bvars, published, snap, holder, blockedBy,
                   signalledInRun>>

\* the time of the accepted capture is not recorded
HandleRun_CheckRate_NoStamp(r, clock) ==
    /\ hpc[r] = "checkRate"
    /\ clock >= now
    /\ now' = clock
    /\ IF RateLimited(clock)
         THEN /\ hpc' = [hpc EXCEPT ![r] = "rateReset"]
              /\ UNCHANGED <<lastCaptureAt, acceptedAt>>
         ELSE /\ acceptedAt' = [acceptedAt EXCEPT ![r] = clock]
              /\ hpc' = [hpc EXCEPT ![r] = "start"]
              /\ UNCHANGED lastCaptureAt
    /\ UNCHANGED <<hwvars, geovars, seqvars, bcvars, RunCapture, running,
                   captureCancel, status, cvars, gvars, ctxDone, bvars,
                   published, snap, holder, blockedBy, signalledInRun>>

\* handlers.go:144-154, under lastCaptureMu; the clock is read here and
\* shows any time not before its previous reading
HandleRun_CheckRate(r, clock) ==
    /\ hpc[r] = "checkRate"
    /\ clock >= now
    /\ now' = clock
    /\ IF RateLimited(clock)
         THEN /\ hpc' = [hpc EXCEPT ![r] = "rateReset"]
              /\ UNCHANGED <<lastCaptureAt, acceptedAt>>
         ELSE /\ lastCaptureAt' = clock
              /\ acceptedAt' = [acceptedAt EXCEPT ![r] = clock]
              /\ hpc' = [hpc EXCEPT ![r] = "start"]
    /\ UNCHANGED <<hwvars, geovars, seqvars, bcvars, RunCapture, running, captureCancel, status, cvars,
                   gvars, ctxDone, bvars, published, snap, holder, blockedBy,
                   signalledInRun>>

\* the 429 is also broadcast to the observers
HandleRun_RateReset_Announces(r) ==
    /\ hpc[r] = "rateReset"
    /\ running' = FALSE
    /\ hpc' = [hpc EXCEPT ![r] = "done"]
    /\ status' = [status EXCEPT ![r] = 429]
    /\ snap' = [snap EXCEPT ![r] = NoSnap]
    /\ LET evt == [l |-> "warning", msg |-> <<"please", "wait">>, run |-> r]
       IN /\ chan' = [o \in Obs |-> IF o \in clients /\ Len(chan[o]) < ChanCap
                                      THEN Append(chan[o], evt) ELSE chan[o]]
          /\ published' = Append(published, evt)
    /\ UNCHANGED <<hwvars, geovars, seqvars, bcvars, RunCapture, lastCaptureAt, captureCancel, now, cvars, gvars,
                   ctxDone, clients, closed, opc, delivered, holder, blockedBy,
                   signalledInRun, acceptedAt>>

\* handlers.go:147-151, under runningMu: give the flag back, answer 429
HandleRun_RateReset(r) ==
    /\ hpc[r] = "rateReset"
    /\ running' = FALSE
    /\ hpc' = [hpc EXCEPT ![r] = "done"]
    /\ status' = [status EXCEPT ![r] = 429]
    /\ snap' = [snap EXCEPT ![r] = NoSnap]
    /\ UNCHANGED <<hwvars, geovars, seqvars, bcvars, RunCapture, lastCaptureAt, captureCancel, now, cvars, gvars,
                   ctxDone, bvars, published, holder, blockedBy, signalledInRun,
                   acceptedAt>>

\* the flag is given back as soon as the goroutine is started
HandleRun_Start_ReleasesFlag(r) ==
    /\ hpc[r] = "start"
    /\ captureCancel' = r
    /\ running' = FALSE
    /\ gpc' = [gpc EXCEPT ![r] = "run"]
    /\ seqpc' = [seqpc EXCEPT ![r] = "init"]
    /\ hpc' = [hpc EXCEPT ![r] = "done"]
    /\ status' = [status EXCEPT ![r] = 202]
    /\ snap' = [snap EXCEPT ![r] = NoSnap]
    /\ UNCHANGED <<hwvars, geovars, seqvars, bcvars, RunCapture, lastCaptureAt, now, cvars, iter,
                   result, ctxDone, bvars, published, holder, blockedBy,
                   signalledInRun, acceptedAt>>

\* the run's context is derived from the request's context, which is
\* cancelled when the request ends
HandleRun_Start_RequestCtx(r) ==
    /\ hpc[r] = "start"
    /\ captureCancel' = r
    /\ ctxDone' = [ctxDone EXCEPT ![r] = TRUE]
    /\ gpc' = [gpc EXCEPT ![r] = "run"]
    /\ seqpc' = [seqpc EXCEPT ![r] = "init"]
    /\ hpc' = [hpc EXCEPT ![r] = "done"]
    /\ status' = [status EXCEPT ![r] = 202]
    /\ snap' = [snap EXCEPT ![r] = NoSnap]
    /\ UNCHANGED <<hwvars, geovars, seqvars, bcvars, RunCapture, running, lastCaptureAt, now, cvars, iter,
                   result, bvars, published, holder, blockedBy,
                   signalledInRun, acceptedAt>>

\* the goroutine is started and 202 is answered without the handle stored
HandleRun_Start_NoHandle(r) ==
    /\ hpc[r] = "start"
    /\ gpc' = [gpc EXCEPT ![r] = "run"]
    /\ seqpc' = [seqpc EXCEPT ![r] = "init"]
    /\ hpc' = [hpc EXCEPT ![r] = "done"]
    /\ status' = [status EXCEPT ![r] = 202]
    /\ snap' = [snap EXCEPT ![r] = NoSnap]
    /\ UNCHANGED <<hwvars, geovars, seqvars, bcvars, RunCapture, running,
                   lastCaptureAt, captureCancel, now, cvars, iter, result,
                   ctxDone, bvars, published, holder, blockedBy,
                   signalledInRun, acceptedAt>>

\* handlers.go:158-191: the handle is stored under captureCancelMu (the
\* run's context is the request's number), the goroutine is started and
\* 202 is answered
HandleRun_Start(r) ==
    /\ hpc[r] = "start"
    /\ captureCancel' = r
    /\ gpc' = [gpc EXCEPT ![r] = "run"]
    /\ seqpc' = [seqpc EXCEPT ![r] = "init"]
    /\ hpc' = [hpc EXCEPT ![r] = "done"]
    /\ status' = [status EXCEPT ![r] = 202]
    /\ snap' = [snap EXCEPT ![r] = NoSnap]
    /\ UNCHANGED <<hwvars, geovars, seqvars, bcvars, RunCapture, running, lastCaptureAt, now, cvars, iter,
                   result, ctxDone, bvars, published, holder, blockedBy,
                   signalledInRun, acceptedAt>>

(* ----------------------------- broadcaster ---------------------------- *)
\* the message is put at the head of the buffer
TrySend_Front(q, m) == IF Len(q) < ChanCap THEN <<m>> \o q ELSE q

\* broadcaster.go:64-69  select { case ch <- payload: default: } on a channel
\* whose buffer holds q
TrySend(q, m) == IF Len(q) < ChanCap THEN Append(q, m) ELSE q

\* broadcaster.go:62-70: one non-blocking send per subscribed client
Broadcast(evt) ==
    [o \in Obs |-> IF o \in clients THEN TrySend(chan[o], evt) ELSE chan[o]]

\* the errors.Is(err, context.Canceled) case is missing
TerminalLevel_NoCancelCase(err) == IF err = "nil" THEN "info" ELSE "error"

\* handlers.go:176-186: level and message for the value RunCapture returned;
\* a message is its sequence of words
TerminalLevel(err) ==
    IF err = "nil" THEN "info"
    ELSE IF err = "canceled" THEN "warning"
    ELSE "error"

TerminalMsg(err) ==
    IF err = "nil" THEN <<"Sequence", "complete">>
    ELSE IF err = "canceled" THEN <<"Capture", "cancelled", "by", "user">>
    ELSE <<"Capture", "failed:", err>>

\* broadcaster.go:51-55 StatusEvent, less its timestamp; run names the
\* publishing goroutine
StatusEvent(id, level, msg) == [l |-> level, msg |-> msg, run |-> id]

(* ---------------------- RunCapture (the sequencer) -------------------- *)
\* RunCapture returns err: the goroutine goes on to publish
Return(id, err) ==
    /\ result' = [result EXCEPT ![id] = err]
    /\ seqpc' = [seqpc EXCEPT ![id] = "ret"]
    /\ gpc' = [gpc EXCEPT ![id] = "publish"]

\* main.go executeCapture up to the column loop of RunGridShot: the plan is
\* computed (configuration error) and the start moves are made (hardware
\* error) without consulting ctx
Seq_Init(id) ==
    /\ gpc[id] = "run" /\ seqpc[id] = "init"
    /\ \/ /\ seqpc' = [seqpc EXCEPT ![id] = "check"]
          /\ UNCHANGED <<gpc, result>>
       \/ Return(id, "config")
       \/ Return(id, "hardware")
    /\ UNCHANGED <<hwvars, geovars, seqvars, bcvars, RunCapture, admission, now, hvars, cvars, iter, ctxDone,
                   bvars, published, ghosts>>

\* the select on ctx.Done() is missing
Seq_Check_IgnoresCtx(id) ==
    /\ gpc[id] = "run" /\ seqpc[id] = "check"
    /\ IF iter[id] = SeqIters
         THEN /\ result' = [result EXCEPT ![id] = "nil"]
              /\ seqpc' = [seqpc EXCEPT ![id] = "ret"]
              /\ gpc' = [gpc EXCEPT ![id] = "publish"]
         ELSE /\ seqpc' = [seqpc EXCEPT ![id] = "work"]
              /\ UNCHANGED <<gpc, result>>
    /\ UNCHANGED <<hwvars, geovars, seqvars, bcvars, RunCapture, admission, now, hvars, cvars, iter, ctxDone,
                   bvars, published, ghosts>>

\* sequence.go RunGridShot: the loop test and the select on ctx.Done() at
\* the top of an iteration
Seq_Check(id) ==
    /\ gpc[id] = "run" /\ seqpc[id] = "check"
    /\ IF iter[id] = SeqIters THEN Return(id, "nil")
       ELSE IF ctxDone[id] THEN Return(id, "canceled")
       ELSE /\ seqpc' = [seqpc EXCEPT ![id] = "work"]
            /\ UNCHANGED <<gpc, result>>
    /\ UNCHANGED <<hwvars, geovars, seqvars, bcvars, RunCapture, admission, now, hvars, cvars, iter, ctxDone,
                   bvars, published, ghosts>>

\* sequence.go RunGridShot: the moves and the shot of one iteration, which
\* run to completion or fail with a hardware error
Seq_Work(id) ==
    /\ gpc[id] = "run" /\ seqpc[id] = "work"
    /\ \/ /\ seqpc' = [seqpc EXCEPT ![id] = "check"]
          /\ iter' = [iter EXCEPT ![id] = @ + 1]
          /\ UNCHANGED <<gpc, result>>
       \/ Return(id, "hardware") /\ UNCHANGED iter
    /\ UNCHANGED <<hwvars, geovars, seqvars, bcvars, RunCapture, admission, now, hvars, cvars, ctxDone, bvars,
                   published, ghosts>>

(* --------------------------- the run goroutine ------------------------ *)
\* handlers.go:176-186: the terminal Broadcast
Go_Publish(id) ==
    /\ gpc[id] = "publish"
    /\ LET evt == StatusEvent(id, TerminalLevel(result[id]), TerminalMsg(result[id]))
       IN /\ chan' = Broadcast(evt)
          /\ published' = Append(published, evt)
    /\ gpc' = [gpc EXCEPT ![id] = "clearCancel"]
    /\ UNCHANGED <<hwvars, geovars, seqvars, bcvars, RunCapture, admission, now, hvars, cvars, seqpc, iter,
                   result, ctxDone, clients, closed, opc, delivered, ghosts>>

\* the deferred cleanup leaves the handle in place
Go_ClearCancel_Skips(id) ==
    /\ gpc[id] = "clearCancel"
    /\ gpc' = [gpc EXCEPT ![id] = "clearRunning"]
    /\ UNCHANGED <<hwvars, geovars, seqvars, bcvars, RunCapture, admission, now, hvars, cvars,
                   seqpc, iter, result, ctxDone, bvars, published, ghosts>>

\* the deferred cleanup gives the flag back first and leaves the handle
\* for later
Go_ClearCancel_FlagFirst(id) ==
    /\ gpc[id] = "clearCancel"
    /\ running' = FALSE
    /\ gpc' = [gpc EXCEPT ![id] = "clearRunning"]
    /\ UNCHANGED <<hwvars, geovars, seqvars, bcvars, RunCapture, lastCaptureAt,
                   captureCancel, now, hvars, cvars, seqpc, iter, result,
                   ctxDone, bvars, published, ghosts>>

\* handlers.go:167-169, deferred, under captureCancelMu
Go_ClearCancel(id) ==
    /\ gpc[id] = "clearCancel"
    /\ captureCancel' = 0
    /\ gpc' = [gpc EXCEPT ![id] = "clearRunning"]
    /\ UNCHANGED <<hwvars, geovars, seqvars, bcvars, RunCapture, running, lastCaptureAt, now, hvars, cvars,
                   seqpc, iter, result, ctxDone, bvars, published, ghosts>>

\* the flag is given back only when RunCapture returned nil
Go_ClearRunning_OnSuccess(id) ==
    /\ gpc[id] = "clearRunning"
    /\ running' = (result[id] # "nil")
    /\ gpc' = [gpc EXCEPT ![id] = "done"]
    /\ UNCHANGED <<hwvars, geovars, seqvars, bcvars, RunCapture, lastCaptureAt, captureCancel, now, hvars, cvars,
                   seqpc, iter, result, ctxDone, bvars, published, ghosts>>

\* handlers.go:171-173, deferred, under runningMu
Go_ClearRunning(id) ==
    /\ gpc[id] = "clearRunning"
    /\ running' = FALSE
    /\ gpc' = [gpc EXCEPT ![id] = "done"]
    /\ UNCHANGED <<hwvars, geovars, seqvars, bcvars, RunCapture, lastCaptureAt, captureCancel, now, hvars, cvars,
                   seqpc, iter, result, ctxDone, bvars, published, ghosts>>

(* ----------------------------- HandleCancel --------------------------- *)
MayCancel(c) == cpc[c] = "idle" /\ (IF c = 1 THEN TRUE ELSE cpc[c - 1] # "idle")

\* handlers.go:201-208: read the handle under captureCancelMu, 409 when nil
Cancel_Read(c) ==
    /\ MayCancel(c)
    /\ IF captureCancel = 0
         THEN /\ cpc' = [cpc EXCEPT ![c] = "done"]
              /\ cstatus' = [cstatus EXCEPT ![c] = 409]
              /\ UNCHANGED clocal
         ELSE /\ cpc' = [cpc EXCEPT ![c] = "call"]
              /\ clocal' = [clocal EXCEPT ![c] = captureCancel]
              /\ UNCHANGED cstatus
    /\ UNCHANGED <<hwvars, geovars, seqvars, bcvars, RunCapture, admission, now, hvars, gvars, ctxDone, bvars,
                   published, ghosts>>

\* cancel is called on the handle stored now, not on the one read under the lock
Cancel_Call_Rereads(c) ==
    /\ cpc[c] = "call"
    /\ ctxDone' = IF captureCancel = 0 THEN ctxDone
                  ELSE [ctxDone EXCEPT ![captureCancel] = TRUE]
    /\ UNCHANGED signalledInRun
    /\ cpc' = [cpc EXCEPT ![c] = "done"]
    /\ cstatus' = [cstatus EXCEPT ![c] = 200]
    /\ UNCHANGED <<hwvars, geovars, seqvars, bcvars, RunCapture, admission, now, hvars, clocal, gvars, bvars,
                   published, snap, holder, blockedBy, acceptedAt>>

\* handlers.go:210-217: cancel() and the 200 answer
Cancel_Call(c) ==
    /\ cpc[c] = "call"
    /\ ctxDone' = [ctxDone EXCEPT ![clocal[c]] = TRUE]
    /\ signalledInRun' = [signalledInRun EXCEPT
                            ![clocal[c]] = @ \/ gpc[clocal[c]] = "run"]
    /\ cpc' = [cpc EXCEPT ![c] = "done"]
    /\ cstatus' = [cstatus EXCEPT ![c] = 200]
    /\ UNCHANGED <<hwvars, geovars, seqvars, bcvars, RunCapture, admission, now, hvars, clocal, gvars, bvars,
                   published, snap, holder, blockedBy, acceptedAt>>

(* --------------------------- HandleStatusStream ----------------------- *)
\* b.mu.Lock() is granted when no Broadcast call holds b.mu.RLock()
NoReader == \A p \in Producers : bpc[p] # "loop"

\* broadcaster.go:33-36 Subscribe, called at handlers.go:242
Subscribe(o) ==
    /\ opc[o] = "idle"
    /\ NoReader
    /\ clients' = clients \cup {o}
    /\ opc' = [opc EXCEPT ![o] = "streaming"]
    /\ UNCHANGED <<hwvars, geovars, seqvars, bcvars, RunCapture, admission, now, hvars, cvars, gvars, ctxDone,
                   chan, closed, delivered, published, ghosts>>

\* handlers.go:259-264: one message is read from the channel and written out
Recv(o) ==
    /\ opc[o] = "streaming"
    /\ chan[o] # <<>>
    /\ delivered' = [delivered EXCEPT ![o] = @ \cup {Head(chan[o])}]
    /\ received' = [received EXCEPT ![o] = Append(@, Head(chan[o]))]
    /\ chan' = [chan EXCEPT ![o] = Tail(@)]
    /\ UNCHANGED <<hwvars, geovars, seqvars, prodvars, RunCapture, admission, now, hvars, cvars, gvars, ctxDone,
                   clients, closed, opc, published, ghosts>>

\* the channel is removed from the map without the write lock
Unsub_Delete_NoLock(o) ==
    /\ opc[o] = "streaming"
    /\ clients' = clients \ {o}
    /\ opc' = [opc EXCEPT ![o] = "closing"]
    /\ UNCHANGED <<hwvars, geovars, seqvars, bcvars, RunCapture, admission, now, hvars, cvars, gvars, ctxDone,
                   chan, closed, delivered, published, ghosts>>

\* handlers.go:270-271 and broadcaster.go:39-41: the client goes away and the
\* deferred unsub removes the channel from the map
Unsub_Delete(o) ==
    /\ opc[o] = "streaming"
    /\ NoReader
    /\ clients' = clients \ {o}
    /\ opc' = [opc EXCEPT ![o] = "closing"]
    /\ UNCHANGED <<hwvars, geovars, seqvars, bcvars, RunCapture, admission, now, hvars, cvars, gvars, ctxDone,
                   chan, closed, delivered, published, ghosts>>

\* broadcaster.go:42  close(ch)
Unsub_Close(o) ==
    /\ opc[o] = "closing"
    /\ closed' = [closed EXCEPT ![o] = TRUE]
    /\ opc' = [opc EXCEPT ![o] = "gone"]
    /\ UNCHANGED <<hwvars, geovars, seqvars, bcvars, RunCapture, admission, now, hvars, cvars, gvars, ctxDone,
                   clients, chan, delivered, published, ghosts>>

(* ---------------------- RunGridShot (sequence.go) --------------------- *)
\* context.Canceled, context.DeadlineExceeded: the values ctx.Err() takes on
\* a context that is done
Canceled == "context canceled"
DeadlineExceeded == "context deadline exceeded"
CtxErrs == {Canceled, DeadlineExceeded}

\* errors of Stepper.MoveSteps (a failed GPIO write) and of Camera.Shoot
MoveErrs == {"stepper: write pin failed"}
ShootErrs == {"camera: focus failed", "camera: shutter failed"}

\* grid plans: CalculateGridPlan gives at least one column and one row; a
\* start offset is zero when half the total angle is less than one step
Plans ==
    [PanColumns : 1..MaxCols, TiltRows : 1..MaxRows,
     PanStepSize : {100}, TiltStepSize : {50},
     StartPanSteps : {0, -150}, StartTiltSteps : {0, 75}]

\* RunGridShot is called with a plan and a context that may be done already
InitRunGridShot ==
    /\ plan \in Plans
    /\ col = 0
    /\ row = 0
    /\ spc = "enable"
    /\ ctxErr \in {"nil"} \cup CtxErrs
    /\ cancelAt = (IF ctxErr = "nil" THEN "never" ELSE "call")
    /\ cancelLen = (IF ctxErr = "nil" THEN -1 ELSE 0)
    /\ inflight = "none"
    /\ torque = "enable"
    /\ shots = 0
    /\ cmds = <<>>
    /\ shootErr = "nil"
    /\ ret = "none"

\* a call of the motion controller or of the camera, with its argument
Cmd(op, n) == [op |-> op, steps |-> n]

\* the call is made and has not returned
Call(op, n) ==
    /\ inflight' = op
    /\ cmds' = Append(cmds, Cmd(op, n))

\* RunGridShot returns e
ReturnErr(e) == ret' = e /\ spc' = "ret"

\* a move that is under way is given up when the context is done
MoveReturns_Interruptible(next) ==
    /\ inflight' = "none"
    /\ IF ctxErr # "nil" THEN ReturnErr(ctxErr)
       ELSE \/ spc' = next /\ ret' = ret
            \/ \E e \in MoveErrs : ReturnErr(e)

\* MovePan or MoveTilt returns: nil and RunGridShot goes on at next, or an
\* error, which RunGridShot returns
MoveReturns(next) ==
    /\ inflight' = "none"
    /\ \/ spc' = next /\ ret' = ret
       \/ \E e \in MoveErrs : ReturnErr(e)

\* the context is never seen done
CtxDone_Never == FALSE

\* sequence.go:345-349 and 361-365  case <-ctx.Done()
CtxDone == ctxErr # "nil"

\* one row too few
RowsLeft_OffByOne == row < plan.TiltRows - 1

\* sequence.go:360  row < plan.TiltRows
RowsLeft == row < plan.TiltRows

\* the context is consulted before anything is done
RunGridShot_EnableMotors_ChecksCtx ==
    /\ spc = "enable"
    /\ IF ctxErr # "nil"
         THEN ReturnErr(ctxErr) /\ UNCHANGED <<torque, cmds>>
       ELSE /\ torque' = "enable"
            /\ cmds' = Append(cmds, Cmd("EnableMotors", 0))
            /\ spc' = "initPan"
            /\ UNCHANGED ret
    /\ UNCHANGED <<hwvars, geovars, webvars, bvars, bcvars, published, plan,
                   col, row, ctxErr, cancelAt, cancelLen, inflight, shots,
                   shootErr>>

\* sequence.go:336  _ = s.motion.EnableMotors()
RunGridShot_EnableMotors ==
    /\ spc = "enable"
    /\ torque' = "enable"
    /\ cmds' = Append(cmds, Cmd("EnableMotors", 0))
    /\ spc' = "initPan"
    /\ UNCHANGED <<hwvars, geovars, webvars, bvars, bcvars, published, plan, col, row, ctxErr,
                   cancelAt, cancelLen, inflight, shots, shootErr, ret>>

\* the pan move is made even when StartPanSteps is zero
InitializePosition_Pan_AlwaysMoves ==
    /\ spc = "initPan"
    /\ IF inflight = "none"
         THEN Call("MovePan", plan.StartPanSteps) /\ UNCHANGED <<spc, ret>>
       ELSE MoveReturns("initTilt") /\ UNCHANGED cmds
    /\ UNCHANGED <<hwvars, geovars, webvars, bvars, bcvars, published, plan, col, row, ctxErr,
                   cancelAt, cancelLen, torque, shots, shootErr>>

\* sequence.go:309-314  InitializePosition, the pan move
InitializePosition_Pan ==
    /\ spc = "initPan"
    /\ IF plan.StartPanSteps = 0
         THEN spc' = "initTilt" /\ UNCHANGED <<inflight, cmds, ret>>
       ELSE IF inflight = "none"
         THEN Call("MovePan", plan.StartPanSteps) /\ UNCHANGED <<spc, ret>>
       ELSE MoveReturns("initTilt") /\ UNCHANGED cmds
    /\ UNCHANGED <<hwvars, geovars, webvars, bvars, bcvars, published, plan, col, row, ctxErr,
                   cancelAt, cancelLen, torque, shots, shootErr>>

\* sequence.go:317-322  InitializePosition, the tilt move
InitializePosition_Tilt ==
    /\ spc = "initTilt"
    /\ IF plan.StartTiltSteps = 0
         THEN spc' = "colCheck" /\ UNCHANGED <<inflight, cmds, ret>>
       ELSE IF inflight = "none"
         THEN Call("MoveTilt", plan.StartTiltSteps) /\ UNCHANGED <<spc, ret>>
       ELSE MoveReturns("colCheck") /\ UNCHANGED cmds
    /\ UNCHANGED <<hwvars, geovars, webvars, bvars, bcvars, published, plan, col, row, ctxErr,
                   cancelAt, cancelLen, torque, shots, shootErr>>

\* sequence.go:344-349 and 411: the column loop test and the select on
\* ctx.Done() at the top of a column
Col_Check ==
    /\ spc = "colCheck"
    /\ IF ~(col < plan.PanColumns) THEN ReturnErr("nil") /\ UNCHANGED row
       ELSE IF CtxDone THEN ReturnErr(ctxErr) /\ UNCHANGED row
       ELSE spc' = "rowCheck" /\ row' = 0 /\ UNCHANGED ret
    /\ UNCHANGED <<hwvars, geovars, webvars, bvars, bcvars, published, plan, col, ctxErr,
                   cancelAt, cancelLen, inflight, torque, shots, cmds, shootErr>>

\* the context is consulted at the top of a column only
Row_Check_NoSelect ==
    /\ spc = "rowCheck"
    /\ IF ~RowsLeft THEN spc' = "pan" /\ UNCHANGED ret
       ELSE spc' = "tilt" /\ UNCHANGED ret
    /\ UNCHANGED <<hwvars, geovars, webvars, bvars, bcvars, published, plan,
                   col, row, ctxErr, cancelAt, cancelLen, inflight, torque,
                   shots, cmds, shootErr>>

\* sequence.go:360-365: the row loop test and the select on ctx.Done() at
\* the top of a row
Row_Check ==
    /\ spc = "rowCheck"
    /\ IF ~RowsLeft THEN spc' = "pan" /\ UNCHANGED ret
       ELSE IF CtxDone THEN ReturnErr(ctxErr)
       ELSE spc' = "tilt" /\ UNCHANGED ret
    /\ UNCHANGED <<hwvars, geovars, webvars, bvars, bcvars, published, plan, col, row, ctxErr,
                   cancelAt, cancelLen, inflight, torque, shots, cmds, shootErr>>

\* every column is traversed downwards
Row_MoveTilt_OneWay ==
    /\ spc = "tilt"
    /\ IF row = 0
         THEN spc' = "disable" /\ UNCHANGED <<inflight, cmds, ret>>
       ELSE IF inflight = "none"
         THEN /\ Call("MoveTilt", -plan.TiltStepSize)
              /\ UNCHANGED <<spc, ret>>
       ELSE MoveReturns("disable") /\ UNCHANGED cmds
    /\ UNCHANGED <<hwvars, geovars, webvars, bvars, bcvars, published, plan, col, row, ctxErr,
                   cancelAt, cancelLen, torque, shots, shootErr>>

\* up in even columns and down in odd ones
Row_MoveTilt_Inverted ==
    /\ spc = "tilt"
    /\ IF row = 0
         THEN spc' = "disable" /\ UNCHANGED <<inflight, cmds, ret>>
       ELSE IF inflight = "none"
         THEN /\ Call("MoveTilt", IF col % 2 = 0 THEN plan.TiltStepSize
                                                 ELSE -plan.TiltStepSize)
              /\ UNCHANGED <<spc, ret>>
       ELSE MoveReturns("disable") /\ UNCHANGED cmds
    /\ UNCHANGED <<hwvars, geovars, webvars, bvars, bcvars, published, plan,
                   col, row, ctxErr, cancelAt, cancelLen, torque, shots,
                   shootErr>>

\* sequence.go:368-386: the tilt move to the next row, down in even columns
\* and up in odd ones; none for the first row of a column
Row_MoveTilt ==
    /\ spc = "tilt"
    /\ IF row = 0
         THEN spc' = "disable" /\ UNCHANGED <<inflight, cmds, ret>>
       ELSE IF inflight = "none"
         THEN /\ Call("MoveTilt", IF col % 2 = 0 THEN -plan.TiltStepSize
                                                 ELSE plan.TiltStepSize)
              /\ UNCHANGED <<spc, ret>>
       ELSE MoveReturns("disable") /\ UNCHANGED cmds
    /\ UNCHANGED <<hwvars, geovars, webvars, bvars, bcvars, published, plan, col, row, ctxErr,
                   cancelAt, cancelLen, torque, shots, shootErr>>

\* the motors are left enabled during the shot
Row_DisableMotors_Skips ==
    /\ spc = "disable"
    /\ spc' = "shoot"
    /\ UNCHANGED <<hwvars, geovars, webvars, bvars, bcvars, published, plan, col, row, ctxErr,
                   cancelAt, cancelLen, inflight, torque, cmds, shots, shootErr, ret>>

\* sequence.go:389  _ = s.motion.DisableMotors()
Row_DisableMotors ==
    /\ spc = "disable"
    /\ torque' = "disable"
    /\ cmds' = Append(cmds, Cmd("DisableMotors", 0))
    /\ spc' = "shoot"
    /\ UNCHANGED <<hwvars, geovars, webvars, bvars, bcvars, published, plan, col, row, ctxErr,
                   cancelAt, cancelLen, inflight, shots, shootErr, ret>>

\* sequence.go:391  err := s.camera.Shoot()
Row_Shoot ==
    /\ spc = "shoot"
    /\ IF inflight = "none"
         THEN /\ Call("Shoot", 0)
              /\ shots' = shots + 1
              /\ UNCHANGED <<spc, shootErr>>
         ELSE /\ inflight' = "none"
              /\ \/ spc' = "reenable" /\ UNCHANGED shootErr
                 \/ \E e \in ShootErrs : shootErr' = e /\ spc' = "failed"
              /\ UNCHANGED <<cmds, shots>>
    /\ UNCHANGED <<hwvars, geovars, webvars, bvars, bcvars, published, plan, col, row, ctxErr,
                   cancelAt, cancelLen, torque, ret>>

\* the error is returned with the motors left disabled
Row_ShootFailed_NoEnable ==
    /\ spc = "failed"
    /\ ReturnErr(shootErr)
    /\ UNCHANGED <<hwvars, geovars, webvars, bvars, bcvars, published, plan, col, row, ctxErr,
                   cancelAt, cancelLen, inflight, torque, cmds, shots, shootErr>>

\* sequence.go:392-393  _ = s.motion.EnableMotors(); return err
Row_ShootFailed ==
    /\ spc = "failed"
    /\ torque' = "enable"
    /\ cmds' = Append(cmds, Cmd("EnableMotors", 0))
    /\ ReturnErr(shootErr)
    /\ UNCHANGED <<hwvars, geovars, webvars, bvars, bcvars, published, plan, col, row, ctxErr,
                   cancelAt, cancelLen, inflight, shots, shootErr>>

\* the motors are not re-enabled after a shot
Row_EnableMotors_Skips ==
    /\ spc = "reenable"
    /\ row' = row + 1
    /\ spc' = "rowCheck"
    /\ UNCHANGED <<hwvars, geovars, webvars, bvars, bcvars, published, plan,
                   col, ctxErr, cancelAt, cancelLen, inflight, torque, cmds,
                   shots, shootErr, ret>>

\* sequence.go:398-399  _ = s.motion.EnableMotors(); row++
Row_EnableMotors ==
    /\ spc = "reenable"
    /\ torque' = "enable"
    /\ cmds' = Append(cmds, Cmd("EnableMotors", 0))
    /\ row' = row + 1
    /\ spc' = "rowCheck"
    /\ UNCHANGED <<hwvars, geovars, webvars, bvars, bcvars, published, plan, col, ctxErr,
                   cancelAt, cancelLen, inflight, shots, shootErr, ret>>

\* sequence.go:402-409: the pan move to the next column, none after the
\* last; col++
Col_MovePan ==
    /\ spc = "pan"
    /\ IF ~(col < plan.PanColumns - 1)
         THEN /\ spc' = "colCheck" /\ col' = col + 1
              /\ UNCHANGED <<inflight, cmds, ret>>
       ELSE IF inflight = "none"
         THEN Call("MovePan", plan.PanStepSize) /\ UNCHANGED <<spc, col, ret>>
       ELSE /\ MoveReturns("colCheck")
            /\ col' = (IF spc' = "colCheck" THEN col + 1 ELSE col)
            /\ UNCHANGED cmds
    /\ UNCHANGED <<hwvars, geovars, webvars, bvars, bcvars, published, plan, row, ctxErr,
                   cancelAt, cancelLen, torque, shots, shootErr>>

\* the context is cancelled, or its deadline passes, while RunGridShot
\* executes
CtxCancel ==
    /\ spc \notin {"none", "ret"}
    /\ ctxErr = "nil"
    /\ ctxErr' \in CtxErrs
    /\ cancelAt' = (IF inflight = "none" THEN "between calls" ELSE inflight)
    /\ cancelLen' = Len(cmds)
    /\ UNCHANGED <<hwvars, geovars, webvars, bvars, bcvars, published, plan, col, row, spc,
                   inflight, torque, shots, cmds, shootErr, ret>>

NextSeq ==
    \/ RunGridShot_EnableMotors
    \/ InitializePosition_Pan
    \/ InitializePosition_Tilt
    \/ Col_Check
    \/ Row_Check
    \/ Row_MoveTilt
    \/ Row_DisableMotors
    \/ Row_Shoot
    \/ Row_ShootFailed
    \/ Row_EnableMotors
    \/ Col_MovePan
    \/ CtxCancel

\* one call of RunGridShot, the orchestrator and the broadcaster at rest
InitSeq ==
    /\ InitHandlers /\ RunCapture = "fn"
    /\ InitBroadcaster(Obs)
    /\ InitRunGridShot
    /\ NoMain
    /\ NewController
    /\ enablePin = [a \in {"pan", "tilt"} |-> 0]

SeqSpec == InitSeq /\ [][NextSeq]_vars

(* --------------- StatusBroadcaster with concurrent producers ---------- *)
\* the n-th message of producer p; producer 0 published the backlog
Line(p, n) == StatusEvent(p, "info", <<n>>)

\* k messages of an earlier producer that a client has not read yet
Backlog(k) == [i \in 1..k |-> Line(0, i)]

\* a broadcaster with one client, subscribed earlier, whose buffer is empty,
\* one short of full, or full; the other observers have not subscribed yet
InitBc ==
    /\ InitHandlers /\ RunCapture = "fn"
    /\ InitSequence
    /\ NoMain
    /\ NewController
    /\ enablePin = [a \in {"pan", "tilt"} |-> 0]
    /\ \E k \in {0, ChanCap - 1, ChanCap} :
          /\ chan = [o \in Subs |-> IF o = 1 THEN Backlog(k) ELSE <<>>]
          /\ published = Backlog(k)
    /\ clients = {1}
    /\ opc = [o \in Subs |-> IF o = 1 THEN "streaming" ELSE "idle"]
    /\ closed = [o \in Subs |-> FALSE]
    /\ delivered = [o \in Subs |-> {}]
    /\ received = [o \in Subs |-> <<>>]
    /\ bpc = [p \in Producers |-> "idle"]
    /\ todo = [p \in Producers |-> {}]
    /\ nsent = [p \in Producers |-> 0]
    /\ tried = [p \in Producers |-> [o \in Subs |-> 0]]

\* broadcaster.go:51-62: the event is marshalled, b.mu.RLock() is taken and
\* the range over b.clients begins
Broadcast_Begin(p) ==
    /\ bpc[p] = "idle"
    /\ nsent[p] < MaxMsgs
    /\ nsent' = [nsent EXCEPT ![p] = @ + 1]
    /\ published' = Append(published, Line(p, nsent[p] + 1))
    /\ todo' = [todo EXCEPT ![p] = clients]
    /\ tried' = [tried EXCEPT ![p] = [o \in Subs |-> 0]]
    /\ bpc' = [bpc EXCEPT ![p] = "loop"]
    /\ UNCHANGED <<hwvars, geovars, webvars, seqvars, bvars, received>>

\* the send waits for room in the buffer
Broadcast_Send_Blocking(p, o) ==
    /\ bpc[p] = "loop"
    /\ o \in todo[p]
    /\ Len(chan[o]) < ChanCap
    /\ chan' = [chan EXCEPT ![o] = Append(@, Line(p, nsent[p]))]
    /\ todo' = [todo EXCEPT ![p] = @ \ {o}]
    /\ tried' = [tried EXCEPT ![p][o] = @ + 1]
    /\ UNCHANGED <<hwvars, geovars, webvars, seqvars, clients, closed, opc, delivered, received,
                   published, bpc, nsent>>

\* broadcaster.go:63-70: one iteration of the range over b.clients, in the
\* order the map yields them
Broadcast_Send(p, o) ==
    /\ bpc[p] = "loop"
    /\ o \in todo[p]
    /\ chan' = [chan EXCEPT ![o] = TrySend(@, Line(p, nsent[p]))]
    /\ todo' = [todo EXCEPT ![p] = @ \ {o}]
    /\ tried' = [tried EXCEPT ![p][o] = @ + 1]
    /\ UNCHANGED <<hwvars, geovars, webvars, seqvars, clients, closed, opc, delivered, received,
                   published, bpc, nsent>>

\* broadcaster.go:61 and 71: the range is over, the deferred RUnlock runs
Broadcast_End(p) ==
    /\ bpc[p] = "loop"
    /\ todo[p] = {}
    /\ bpc' = [bpc EXCEPT ![p] = "idle"]
    /\ UNCHANGED <<hwvars, geovars, webvars, seqvars, bvars, received, published, todo, nsent,
                   tried>>

NextBc ==
    \/ \E p \in Producers : Broadcast_Begin(p)
    \/ \E p \in Producers, o \in Subs : Broadcast_Send(p, o)
    \/ \E p \in Producers : Broadcast_End(p)
    \/ \E o \in Subs : Subscribe(o)
    \/ \E o \in Subs : Len(received[o]) < MaxRecv /\ Recv(o)
    \/ \E o \in Subs : Unsub_Delete(o)
    \/ \E o \in Subs : Unsub_Close(o)

\* the broadcaster, its producers and its observers, the orchestrator at rest
BcSpec == InitBc /\ [][NextBc]_vars

(* ---------------- configuration, overrides and grid plan -------------- *)
\* a float64 value that is the ratio num / den of two integers, den > 0
Rat(n, d) == [num |-> n, den |-> d]

\* the value of a finite float64 field (Fin counts halves)
Val(x) == Rat(x.n, 2)

\* a * b, a / b (b not zero) and a <= b on these values
RMul(a, b) == Rat(a.num * b.num, a.den * b.den)
RDiv(a, b) == Rat(a.num * b.den, a.den * b.num)
RLe(a, b) == a.num * b.den <= b.num * a.den

\* the next integer below
Ceil_Floor(r) == r.num \div r.den

\* grid.go:39  math.Ceil
Ceil(r) == -((-r.num) \div r.den)

\* the next integer below, for both signs
Trunc_Floor(r) == r.num \div r.den

\* steps.go:30  int(x) of a finite float64: the fraction is dropped
Trunc(r) == IF r.num >= 0 THEN r.num \div r.den ELSE -((-r.num) \div r.den)

\* grid.go:39  int(x) of +Inf is implementation-dependent: the smallest int on
\* amd64, the largest on arm64 (here the ends of the model's integers)
MinInt == -2147483647
MaxInt == 2147483647
IntOfInf == {MinInt, MaxInt}

\* overrides given as flags or in the body of a Start request: absent (0),
\* half a unit, in range, negative, not a number, above the range
OverrideSets ==
    [h : {Fin(0), Fin(1), Fin(540), Fin(-2)},
     v : {Fin(0), Fin(90), NaN},
     f : {Fin(0), Fin(100), Fin(1002)}]

\* the values yaml.Unmarshal leaves in cfg (config.go:78-81); the steppers
\* make 3200 and 1600 microsteps per revolution, either way round
ConfigFiles ==
    [CameraType : {"", "nikon_d90_gpio"},
     FocalLengthMm : {Fin(0), Fin(36), Fin(70)},
     Sensor : {<<>>, <<[WidthMm |-> Fin(72), HeightMm |-> Fin(48)]>>},
     OverlapPercent : {Fin(-2), Fin(0), Fin(100), Fin(200), Fin(202)},
     HorizontalAngleDeg : {Fin(0), Fin(720), Fin(722)},
     VerticalAngleDeg : {Fin(0), Fin(360), Fin(362)},
     Steppers : {[pan |-> [StepsPerRev |-> 200, Microstepping |-> 16],
                  tilt |-> [StepsPerRev |-> 200, Microstepping |-> 8]],
                 [pan |-> [StepsPerRev |-> 200, Microstepping |-> 8],
                  tilt |-> [StepsPerRev |-> 200, Microstepping |-> 16]]}]

\* config.go:83-123  Load after the decoding: the checks and the defaults
\* that bear on the plan
Load(c) ==
    IF c.CameraType = "" THEN [err |-> "camera.type is required", cfg |-> c]
    ELSE IF c.FocalLengthMm.n <= 0
      THEN [err |-> "lens.focal_length_mm must be > 0", cfg |-> c]
    ELSE IF c.OverlapPercent.n < 0 \/ c.OverlapPercent.n > 200
      THEN [err |-> "overlap_percent must be between 0 and 100", cfg |-> c]
    ELSE LET c1 == IF c.OverlapPercent.n = 0
                     THEN [c EXCEPT !.OverlapPercent = Fin(60)] ELSE c
             c2 == IF c1.HorizontalAngleDeg.n <= 0
                     THEN [c1 EXCEPT !.HorizontalAngleDeg = Fin(360)] ELSE c1
             c3 == IF c2.VerticalAngleDeg.n <= 0
                     THEN [c2 EXCEPT !.VerticalAngleDeg = Fin(60)] ELSE c2
         IN IF c3.HorizontalAngleDeg.n > 720
              THEN [err |-> "horizontal_angle_deg must be <= 360", cfg |-> c]
            ELSE IF c3.VerticalAngleDeg.n > 360
              THEN [err |-> "vertical_angle_deg must be <= 180", cfg |-> c]
            ELSE [err |-> "nil", cfg |-> c3]

\* main.go:543-557  validateCLIOverrides: a flag that is not 0 must be a
\* finite value in (0, max]
validateCLIOverrides(o) ==
    LET Bad(x, max) ==
            x # Fin(0) /\ (IsNaN(x) \/ IsInf(x) \/ x.n <= 0 \/ x.n > 2 * max)
    IN IF Bad(o.h, 360) THEN "horizontal_angle_deg must be between 1 and 360"
       ELSE IF Bad(o.v, 180) THEN "vertical_angle_deg must be between 1 and 180"
       ELSE IF Bad(o.f, 500) THEN "focal_length_mm must be between 1 and 500"
       ELSE "nil"

\* main.go:563  overrides.X > 0 on a float64
Positive(x) == IF x.k = "fin" THEN x.n > 0 ELSE x = PosInf

\* main.go:562-572  applyOverrides: the value cfg points to after the call
applyOverrides(c, o) ==
    LET c1 == IF Positive(o.h) THEN [c EXCEPT !.HorizontalAngleDeg = o.h] ELSE c
        c2 == IF Positive(o.v) THEN [c1 EXCEPT !.VerticalAngleDeg = o.v] ELSE c1
    IN IF Positive(o.f) THEN [c2 EXCEPT !.FocalLengthMm = o.f] ELSE c2

\* main.go:576-588  applyOverridesToCopy: the value the returned pointer
\* points to; cfg := *baseCfg copies every field written afterwards
applyOverridesToCopy(baseCfg, o) ==
    LET c1 == IF Positive(o.h) THEN [baseCfg EXCEPT !.HorizontalAngleDeg = o.h]
              ELSE baseCfg
        c2 == IF Positive(o.v) THEN [c1 EXCEPT !.VerticalAngleDeg = o.v] ELSE c1
    IN IF Positive(o.f) THEN [c2 EXCEPT !.FocalLengthMm = o.f] ELSE c2

\* fov.go:31 and 39  2 * atan(size / (2 * focal)) * 180 / pi, in tenths of a
\* degree, for the sensor sizes and focal lengths above (in halves of a mm)
FOV(size, focal) ==
    Rat(CASE size = 72 /\ focal = 36 -> 900
          [] size = 72 /\ focal = 70 -> 544
          [] size = 72 /\ focal = 100 -> 396
          [] size = 48 /\ focal = 36 -> 674
          [] size = 48 /\ focal = 70 -> 378
          [] size = 48 /\ focal = 100 -> 270, 10)

\* config.go:133-135
OverlapRatio(c) == Rat(c.OverlapPercent.n, 200)

\* fov.go:46-50  fov * (1.0 - overlapRatio)
HorizontalRotationAngle(c) ==
    RMul(FOV(c.Sensor[1].WidthMm.n, c.FocalLengthMm.n),
         Rat(OverlapRatio(c).den - OverlapRatio(c).num, OverlapRatio(c).den))

\* fov.go:56-60
VerticalRotationAngle(c) ==
    RMul(FOV(c.Sensor[1].HeightMm.n, c.FocalLengthMm.n),
         Rat(OverlapRatio(c).den - OverlapRatio(c).num, OverlapRatio(c).den))

\* steps.go:14-26  NewStepsCalculator
NewStepsCalculator(c) ==
    [panStepsPerDegree |->
         Rat(c.Steppers.pan.StepsPerRev * c.Steppers.pan.Microstepping, 360),
     tiltStepsPerDegree |->
         Rat(c.Steppers.tilt.StepsPerRev * c.Steppers.tilt.Microstepping, 360)]

\* steps.go:29-31
PanStepsFromAngle(s, angleDegrees) == Trunc(RMul(angleDegrees, s.panStepsPerDegree))

\* steps.go:34-36
TiltStepsFromAngle(s, angleDegrees) == Trunc(RMul(angleDegrees, s.tiltStepsPerDegree))

\* config.go:154-162  the half angles
HorizontalHalfAngleDeg(c) == Rat(c.HorizontalAngleDeg.n, 4)
VerticalHalfAngleDeg(c) == Rat(c.VerticalAngleDeg.n, 4)

\* the start is to the right of home
StartPanAngle_Right(c) == HorizontalHalfAngleDeg(c)

\* grid.go:56  startPanAngle := -cfg.HorizontalHalfAngleDeg()
StartPanAngle(c) ==
    Rat(-HorizontalHalfAngleDeg(c).num, HorizontalHalfAngleDeg(c).den)

\* grid.go:39-48  int(math.Ceil(total / rotation)), at least 1; a division by
\* zero gives +Inf, whose conversion to int is inf
Count(total, rotation, inf) ==
    LET n == IF rotation.num = 0 THEN inf ELSE Ceil(RDiv(total, rotation))
    IN IF n < 1 THEN 1 ELSE n

\* grid.go:28-72  CalculateGridPlan
CalculateGridPlan(c, stepsCalc, inf) ==
    [PanColumns |-> Count(Val(c.HorizontalAngleDeg), HorizontalRotationAngle(c), inf),
     TiltRows |-> Count(Val(c.VerticalAngleDeg), VerticalRotationAngle(c), inf),
     PanStepSize |-> PanStepsFromAngle(stepsCalc, HorizontalRotationAngle(c)),
     TiltStepSize |-> TiltStepsFromAngle(stepsCalc, VerticalRotationAngle(c)),
     StartPanAngle |-> StartPanAngle(c),
     StartTiltAngle |-> VerticalHalfAngleDeg(c),
     StartPanSteps |-> PanStepsFromAngle(stepsCalc, StartPanAngle(c)),
     StartTiltSteps |-> TiltStepsFromAngle(stepsCalc, VerticalHalfAngleDeg(c))]

\* main.go:484-500  executeCapture up to the grid plan: the copy of the
\* configuration, the error of NewFOVCalculator (fov.go:20-22), the plan
executeCapture(baseCfg, overrides, inf) ==
    LET c == applyOverridesToCopy(baseCfg, overrides)
    IN IF c.Sensor = <<>>
         THEN [cfg |-> <<c>>, plan |-> <<>>, err |-> "create FOV calculator"]
       ELSE [cfg |-> <<c>>,
             plan |-> <<CalculateGridPlan(c, NewStepsCalculator(c), inf)>>,
             err |-> "nil"]

\* main.go:384  config.Load: a failure ends the program (log.Fatalf)
Main_Load ==
    /\ mpc = "load"
    /\ IF Load(cfg).err # "nil" THEN mpc' = "exit" /\ cfg' = cfg
       ELSE mpc' = "flags" /\ cfg' = Load(cfg).cfg
    /\ UNCHANGED <<hwvars, webvars, seqvars, bvars, bcvars, published, body,
                   startStatus, runCfg, gridPlan, captureErr, nruns>>

\* main.go:390-399 and 457: the flags are checked and applied to cfg in
\* place; the program then serves Start requests (web) or captures once
Main_Flags(o, web) ==
    /\ mpc = "flags"
    /\ IF validateCLIOverrides(o) # "nil" THEN mpc' = "exit" /\ cfg' = cfg
       ELSE /\ cfg' = applyOverrides(cfg, o)
            /\ mpc' = IF web THEN "serve" ELSE "oneshot"
    /\ UNCHANGED <<hwvars, webvars, seqvars, bvars, bcvars, published, body,
                   startStatus, runCfg, gridPlan, captureErr, nruns>>

\* main.go:476  runCapture(ctx, web.Overrides{})
Main_RunCapture(inf) ==
    /\ mpc = "oneshot"
    /\ runCfg' = executeCapture(cfg, ZeroOverrides, inf).cfg
    /\ gridPlan' = executeCapture(cfg, ZeroOverrides, inf).plan
    /\ captureErr' = executeCapture(cfg, ZeroOverrides, inf).err
    /\ mpc' = "exit"
    /\ UNCHANGED <<hwvars, webvars, seqvars, bvars, bcvars, published, cfg, body,
                   startStatus, nruns>>

\* the overrides are applied to the base configuration itself
HandleRun_ExecuteCapture_InPlace(o, inf) ==
    /\ mpc = "serve"
    /\ nruns < MaxRuns
    /\ nruns' = nruns + 1
    /\ body' = o
    /\ IF ValidateOverrides(o) # "ok"
         THEN /\ startStatus' = 400
              /\ UNCHANGED <<cfg, runCfg, gridPlan, captureErr>>
         ELSE /\ startStatus' = 202
              /\ cfg' = applyOverrides(cfg, o)
              /\ runCfg' = executeCapture(cfg, o, inf).cfg
              /\ gridPlan' = executeCapture(cfg, o, inf).plan
              /\ captureErr' = executeCapture(cfg, o, inf).err
    /\ UNCHANGED <<hwvars, webvars, seqvars, bvars, bcvars, published, mpc>>

\* handlers.go:118-127 and 176, main.go:453-455: a Start request with the
\* overrides o of its body is refused by ValidateOverrides, or its run calls
\* executeCapture with the base configuration and o
HandleRun_ExecuteCapture(o, inf) ==
    /\ mpc = "serve"
    /\ nruns < MaxRuns
    /\ nruns' = nruns + 1
    /\ body' = o
    /\ IF ValidateOverrides(o) # "ok"
         THEN /\ startStatus' = 400
              /\ UNCHANGED <<runCfg, gridPlan, captureErr>>
         ELSE /\ startStatus' = 202
              /\ runCfg' = executeCapture(cfg, o, inf).cfg
              /\ gridPlan' = executeCapture(cfg, o, inf).plan
              /\ captureErr' = executeCapture(cfg, o, inf).err
    /\ UNCHANGED <<hwvars, webvars, seqvars, bvars, bcvars, published, cfg, mpc>>

NextGeo ==
    \/ Main_Load
    \/ \E o \in OverrideSets, web \in BOOLEAN : Main_Flags(o, web)
    \/ \E inf \in IntOfInf : Main_RunCapture(inf)
    \/ \E o \in OverrideSets, inf \in IntOfInf : HandleRun_ExecuteCapture(o, inf)

\* main is started on a configuration file; the orchestrator, the
\* broadcaster and the sequencer are at rest
InitGeo ==
    /\ InitHandlers /\ RunCapture = "fn"
    /\ InitBroadcaster(Obs)
    /\ InitSequence
    /\ cfg \in ConfigFiles
    /\ mpc = "load"
    /\ body = ZeroOverrides
    /\ startStatus = 0
    /\ runCfg = <<>>
    /\ gridPlan = <<>>
    /\ captureErr = "none"
    /\ nruns = 0
    /\ NewController
    /\ enablePin = [a \in {"pan", "tilt"} |-> 0]

\* from the configuration file to the grid plan of each capture
GeoSpec == InitGeo /\ [][NextGeo]_vars

(* --------------------- motion.Controller and Stepper ------------------ *)
\* errors gpio.Driver.WritePin may return; "nil" is no error
WriteErrs == {"gpio: pin setup failed", "gpio: driver closed"}

\* a Controller method is called with its arguments (MovePan and MoveTilt
\* take one); the logs hold the calls made on behalf of this call
Controller_Call(op, panSteps, tiltSteps) ==
    /\ mctl = "idle"
    /\ mcall' = [op |-> op, panSteps |-> panSteps, tiltSteps |-> tiltSteps]
    /\ mctl' = IF op = "MoveTilt" THEN "tilt" ELSE "pan"
    /\ mret' = "none"
    /\ sret' = "none"
    /\ moves' = <<>>
    /\ writes' = <<>>
    /\ scall' = [op |-> "none", axis |-> "none"]
    /\ UNCHANGED <<stp, enablePin, geovars, webvars, seqvars, bvars, bcvars, published>>

\* s.MoveSteps(steps) is called on the stepper of the axis
MoveSteps(axis, steps) ==
    /\ moves' = Append(moves, [axis |-> axis, steps |-> steps])
    /\ stp' = [axis |-> axis, left |-> steps, at |-> "entry"]

\* s.gpio.WritePin(pin, level) returns e; next is where MoveSteps goes on
\* after nil, with left pulses to make
WritePin(pin, level, e, next, left) ==
    /\ writes' = Append(writes, [axis |-> stp.axis, pin |-> pin,
                                 level |-> level, err |-> e])
    /\ IF e # "nil"
         THEN sret' = e /\ stp' = [stp EXCEPT !.at = "ret"]
       ELSE IF next = "ret"
         THEN sret' = "nil" /\ stp' = [stp EXCEPT !.at = "ret", !.left = 0]
       ELSE sret' = sret /\ stp' = [stp EXCEPT !.at = next, !.left = left]

\* part_002:21 and 31  c.pan.MoveSteps(steps)
Controller_MovePan ==
    /\ mctl = "pan"
    /\ MoveSteps("pan", mcall.panSteps)
    /\ mctl' = "panRet"
    /\ UNCHANGED <<scall, mcall, mret, sret, writes, enablePin, geovars, webvars, seqvars, bvars,
                   bcvars, published>>

\* part_002:25 and 34  c.tilt.MoveSteps(steps)
Controller_MoveTilt ==
    /\ mctl = "tilt"
    /\ MoveSteps("tilt", mcall.tiltSteps)
    /\ mctl' = "tiltRet"
    /\ UNCHANGED <<scall, mcall, mret, sret, writes, enablePin, geovars, webvars, seqvars, bvars,
                   bcvars, published>>

\* stepper.go:137-155  MoveSteps up to the write of the direction pin
MoveSteps_Dir(e) ==
    /\ stp.at = "entry"
    /\ IF stp.left = 0
         THEN /\ e = "nil"
              /\ sret' = "nil"
              /\ stp' = [stp EXCEPT !.at = "ret"]
              /\ UNCHANGED writes
       ELSE IF stp.left > 0
         THEN WritePin("dir", "High", e, "high", stp.left)
       ELSE WritePin("dir", "Low", e, "high", -stp.left)
    /\ UNCHANGED <<scall, mcall, mctl, mret, moves, enablePin, geovars, webvars, seqvars, bvars,
                   bcvars, published>>

\* stepper.go:167-169  stepPulse, the HIGH write
stepPulse_High(e) ==
    /\ stp.at = "high"
    /\ WritePin("step", "High", e, "low", stp.left)
    /\ UNCHANGED <<scall, mcall, mctl, mret, moves, enablePin, geovars, webvars, seqvars, bvars,
                   bcvars, published>>

\* the loop of MoveSteps ends one pulse early
stepPulse_Low_OneShort(e) ==
    /\ stp.at = "low"
    /\ WritePin("step", "Low", e, IF stp.left > 2 THEN "high" ELSE "ret",
                stp.left - 1)
    /\ UNCHANGED <<scall, mcall, mctl, mret, moves, enablePin, geovars, webvars,
                   seqvars, bvars, bcvars, published>>

\* stepper.go:171-175 and 157-162  stepPulse, the LOW write, and the loop
\* of MoveSteps
stepPulse_Low(e) ==
    /\ stp.at = "low"
    /\ WritePin("step", "Low", e, IF stp.left > 1 THEN "high" ELSE "ret",
                stp.left - 1)
    /\ UNCHANGED <<scall, mcall, mctl, mret, moves, enablePin, geovars, webvars, seqvars, bvars,
                   bcvars, published>>

\* the pan error is dropped and the tilt move is made
Controller_PanReturns_IgnoresError ==
    /\ mctl = "panRet" /\ stp.at = "ret"
    /\ stp' = NoMove
    /\ IF mcall.op = "MovePan" THEN mret' = sret /\ mctl' = "idle"
       ELSE mctl' = "tilt" /\ mret' = mret
    /\ UNCHANGED <<scall, mcall, sret, moves, writes, enablePin, geovars, webvars, seqvars,
                   bvars, bcvars, published>>

\* part_002:21 and 31-33  the pan stepper's MoveSteps has returned
Controller_PanReturns ==
    /\ mctl = "panRet" /\ stp.at = "ret"
    /\ stp' = NoMove
    /\ IF mcall.op = "MovePan" \/ sret # "nil"
         THEN mret' = sret /\ mctl' = "idle"
       ELSE mctl' = "tilt" /\ mret' = mret
    /\ UNCHANGED <<scall, mcall, sret, moves, writes, enablePin, geovars, webvars, seqvars,
                   bvars, bcvars, published>>

\* part_002:25 and 34-37  the tilt stepper's MoveSteps has returned
Controller_TiltReturns ==
    /\ mctl = "tiltRet" /\ stp.at = "ret"
    /\ stp' = NoMove
    /\ mret' = sret
    /\ mctl' = "idle"
    /\ UNCHANGED <<scall, mcall, sret, moves, writes, enablePin, geovars, webvars, seqvars,
                   bvars, bcvars, published>>

\* stepper.go:179-184  Enable, called on the stepper of the axis while no
\* Controller method is under way; the logs hold this call
Stepper_Enable(axis, e) ==
    /\ mctl = "idle"
    /\ scall' = [op |-> "Enable", axis |-> axis]
    /\ mcall' = [op |-> "none", panSteps |-> 0, tiltSteps |-> 0]
    /\ mret' = "none"
    /\ moves' = <<>>
    /\ IF enablePin[axis] <= 0
         THEN e = "nil" /\ writes' = <<>>
       ELSE writes' = <<[axis |-> axis, pin |-> "enable", level |-> "Low",
                         err |-> e]>>
    /\ sret' = e
    /\ UNCHANGED <<mctl, stp, enablePin, geovars, webvars, seqvars, bvars,
                   bcvars, published>>

\* stepper.go:188-193  Disable
Stepper_Disable(axis, e) ==
    /\ mctl = "idle"
    /\ scall' = [op |-> "Disable", axis |-> axis]
    /\ mcall' = [op |-> "none", panSteps |-> 0, tiltSteps |-> 0]
    /\ mret' = "none"
    /\ moves' = <<>>
    /\ IF enablePin[axis] <= 0
         THEN e = "nil" /\ writes' = <<>>
       ELSE writes' = <<[axis |-> axis, pin |-> "enable", level |-> "High",
                         err |-> e]>>
    /\ sret' = e
    /\ UNCHANGED <<mctl, stp, enablePin, geovars, webvars, seqvars, bvars,
                   bcvars, published>>

\* the methods of one Controller and of its steppers, called one at a time,
\* the moves with step counts of both signs and of zero
NextHw ==
    \/ \E p, t \in {-2, 0, 1} : Controller_Call("MovePanTilt", p, t)
    \/ \E p \in {-2, 0, 1} : Controller_Call("MovePan", p, 0)
    \/ \E t \in {-2, 0, 1} : Controller_Call("MoveTilt", 0, t)
    \/ Controller_MovePan
    \/ Controller_MoveTilt
    \/ \E e \in WriteErrs \cup {"nil"} : MoveSteps_Dir(e)
    \/ \E e \in WriteErrs \cup {"nil"} : stepPulse_High(e)
    \/ \E e \in WriteErrs \cup {"nil"} : stepPulse_Low(e)
    \/ Controller_PanReturns
    \/ Controller_TiltReturns
    \/ \E a \in {"pan", "tilt"}, e \in WriteErrs \cup {"nil"} :
          Stepper_Enable(a, e)
    \/ \E a \in {"pan", "tilt"}, e \in WriteErrs \cup {"nil"} :
          Stepper_Disable(a, e)

\* a Controller on two steppers, each with or without an enable pin;
\* everything else at rest
InitHw ==
    /\ InitHandlers /\ RunCapture = "fn"
    /\ InitBroadcaster(Obs)
    /\ InitSequence
    /\ NoMain
    /\ NewController
    /\ enablePin \in [{"pan", "tilt"} -> {-1, 0, 22}]

\* the motion controller and its two steppers down to the GPIO writes
HwSpec == InitHw /\ [][NextHw]_vars

(* ---------------------------- specification --------------------------- *)
\* the requests and the run goroutine
NextCore ==
    \/ \E r \in Reqs, o \in Bodies : HandleRun_Admit(r, o)
    \/ \E r \in Reqs, clock \in 0..MaxTime : HandleRun_CheckRate(r, clock)
    \/ \E r \in Reqs : HandleRun_RateReset(r)
    \/ \E r \in Reqs : HandleRun_Start(r)
    \/ \E id \in Reqs : Seq_Init(id)
    \/ \E id \in Reqs : Seq_Check(id)
    \/ \E id \in Reqs : Seq_Work(id)
    \/ \E id \in Reqs : Go_Publish(id)
    \/ \E id \in Reqs : Go_ClearCancel(id)
    \/ \E id \in Reqs : Go_ClearRunning(id)
    \/ \E c \in Cancels : Cancel_Read(c)
    \/ \E c \in Cancels : Cancel_Call(c)

\* the status-stream observers
NextObs ==
    \/ \E o \in Obs : Subscribe(o)
    \/ \E o \in Obs : Recv(o)
    \/ \E o \in Obs : Unsub_Delete(o)
    \/ \E o \in Obs : Unsub_Close(o)

Next == NextCore \/ NextObs

Spec == Init /\ [][Next]_vars

\* the orchestrator with no status-stream client connected
CoreSpec == Init /\ [][NextCore]_vars

\* the run goroutine is scheduled, its mutexes are held for a few
\* assignments only and Broadcast does not block: each of its steps that can
\* be taken after RunCapture returned is taken
Fairness ==
    \A id \in Reqs :
        /\ WF_vars(Go_Publish(id))
        /\ WF_vars(Go_ClearCancel(id))
        /\ WF_vars(Go_ClearRunning(id))

FairSpec == CoreSpec /\ Fairness

(* ------------------------------ Server.Mux ---------------------------- *)
\* server.go:33-43  the handler http.ServeMux gives a request; a path is
\* the sequence of its segments, a pattern with no method takes any, the
\* pattern "/static/" takes every path below it; without a pattern for the
\* path the answer is 404, with patterns for other methods only 405
Mux(method, path) ==
    LET routes ==
            {[method |-> "POST", path |-> <<"run">>, subtree |-> FALSE,
              handler |-> "HandleRun"],
             [method |-> "GET", path |-> <<"config">>, subtree |-> FALSE,
              handler |-> "HandleConfig"],
             [method |-> "GET", path |-> <<"status", "stream">>,
              subtree |-> FALSE, handler |-> "HandleStatusStream"],
             [method |-> "", path |-> <<"static">>, subtree |-> TRUE,
              handler |-> "FileServer"],
             [method |-> "GET", path |-> <<>>, subtree |-> FALSE,
              handler |-> "ServeIndex"]}
        byPath ==
            {rt \in routes :
                IF rt.subtree
                  THEN /\ Len(path) >= Len(rt.path)
                       /\ SubSeq(path, 1, Len(rt.path)) = rt.path
                ELSE path = rt.path}
        hit == {rt \in byPath : rt.method \in {"", method}}
    IN IF hit # {} THEN (CHOOSE rt \in hit : TRUE).handler
       ELSE IF byPath # {} THEN "405" ELSE "404"

\* the web client's POST /cancel (app.js:112) is served by the mux: a step
\* of HandleCancel when the mux gives it the request, else the mux's answer
ServeHTTP_Cancel(c) ==
    IF Mux("POST", <<"cancel">>) = "HandleCancel"
      THEN IF cpc[c] = "call" THEN Cancel_Call(c) ELSE Cancel_Read(c)
    ELSE /\ MayCancel(c)
         /\ cpc' = [cpc EXCEPT ![c] = "done"]
         /\ cstatus' = [cstatus EXCEPT ![c] = 404]
         /\ UNCHANGED <<hwvars, geovars, seqvars, bcvars, RunCapture,
                        admission, now, hvars, clocal, gvars, ctxDone, bvars,
                        published, ghosts>>

\* the requests of the web client as the server serves them, and the run
\* goroutine
NextSrv ==
    \/ \E r \in Reqs, o \in Bodies :
          Mux("POST", <<"run">>) = "HandleRun" /\ HandleRun_Admit(r, o)
    \/ \E r \in Reqs, clock \in 0..MaxTime : HandleRun_CheckRate(r, clock)
    \/ \E r \in Reqs : HandleRun_RateReset(r)
    \/ \E r \in Reqs : HandleRun_Start(r)
    \/ \E id \in Reqs : Seq_Init(id)
    \/ \E id \in Reqs : Seq_Check(id)
    \/ \E id \in Reqs : Seq_Work(id)
    \/ \E id \in Reqs : Go_Publish(id)
    \/ \E id \in Reqs : Go_ClearCancel(id)
    \/ \E id \in Reqs : Go_ClearRunning(id)
    \/ \E c \in Cancels : ServeHTTP_Cancel(c)

\* the orchestrator behind Server.Mux
SrvSpec == Init /\ [][NextSrv]_vars

TypeOK ==
    /\ running \in BOOLEAN
    /\ captureCancel \in 0..MaxReq
    /\ now \in 0..MaxTime

(* ------------------------- derived notions --------------------------- *)
\* the events a run's goroutine has published, in order
EventsOf(id) == SelectSeq(published, LAMBDA e : e.run = id)

\* the run was accepted and its sequencer has not returned
SequencerActive(id) == hpc[id] = "start" \/ gpc[id] = "run"

\* the goroutine is past its terminal Broadcast
Published(id) == gpc[id] \in {"clearCancel", "clearRunning", "done"}

HasWord(msg, w) == \E i \in 1..Len(msg) : msg[i] = w

(* ------------------------------- C1 ----------------------------------- *)
\* C1: under every interleaving of Start requests, Cancel requests and run
\* completions, at most one invocation of RunCapture is executing
C1_SingleFlight == Cardinality({id \in Reqs : gpc[id] = "run"}) <= 1

\* a second run executes after the first has finished, and a Start that
\* arrived during a run was turned away
C1_Witness ==
    \E a, b \in Reqs :
        /\ a # b /\ gpc[a] = "done" /\ gpc[b] = "run"
        /\ \E r \in Reqs : status[r] = 409

(* ------------------------------- C2 ----------------------------------- *)
\* C2: in every state in which an observer has been delivered a run's
\* terminal event, that run no longer holds the running flag and its handle
\* is no longer stored
C2_ClearedBeforeTerminalEvent ==
    \A o \in Obs : \A e \in delivered[o] :
        /\ ~(running /\ holder = e.run)
        /\ captureCancel # e.run

(* ------------------------------- C3 ----------------------------------- *)
\* C3: while an accepted run's sequencer has not returned, every further
\* Start request carrying a valid parameter set is answered 409: it is not
\* accepted and it is not answered 429, also inside the cool-down window
C3_RejectedWhileRunning ==
    [][\A r \in Reqs :
          (/\ hpc[r] = "idle" /\ hpc'[r] # "idle"
           /\ status'[r] # 400
           /\ \E id \in Reqs : SequencerActive(id))
          => status'[r] = 409 /\ hpc'[r] = "done"]_vars

\* a Start was answered 409 inside the cool-down window of a run whose
\* sequencer is still executing
C3_Witness ==
    \E r, id \in Reqs :
        /\ status[r] = 409 /\ blockedBy[r] = id /\ gpc[id] = "run"
        /\ now - acceptedAt[id] < minDelayBetweenCaptures

(* ------------------------------- C4 ----------------------------------- *)
\* C4: a Start request is answered already-running only because of a run in
\* progress: the request that held the running flag when the 409 was given
\* is an accepted one, never one that is itself turned away as rate-limited
C4_AlreadyRunningOnlyDuringRun ==
    \A r \in Reqs : status[r] = 409 => status[blockedBy[r]] # 429

(* ------------------------------- C5 ----------------------------------- *)
\* C5: every accepted run publishes exactly one terminal status event, from
\* its own goroutine: info when RunCapture returned nil, warning when it
\* returned the cancellation error, error carrying the error text otherwise;
\* before the sequencer returns the run has published none
C5_OneTerminalEvent ==
    \A id \in Reqs :
        /\ ~Published(id) => Len(EventsOf(id)) = 0
        /\ Published(id) =>
             /\ Len(EventsOf(id)) = 1
             /\ result[id] = "nil" => EventsOf(id)[1].l = "info"
             /\ result[id] = "canceled" => EventsOf(id)[1].l = "warning"
             /\ result[id] \in {"config", "hardware"} =>
                  /\ EventsOf(id)[1].l = "error"
                  /\ HasWord(EventsOf(id)[1].msg, result[id])

\* one finished run was cancelled and another ended with success or failure
C5_Witness ==
    \E a, b \in Reqs :
        /\ gpc[a] = "done" /\ result[a] = "canceled"
        /\ gpc[b] = "done" /\ result[b] \in {"nil", "hardware"}

(* ------------------------------- C6 ----------------------------------- *)
\* some run has been accepted, and the start time of the last one
HasAccepted == \E id \in Reqs : acceptedAt[id] # ZeroTime
LastStart ==
    CHOOSE t \in {acceptedAt[id] : id \in Reqs} :
        \A id \in Reqs : acceptedAt[id] <= t

\* C6: a Start that finds no run in progress is answered 429 when the clock
\* shows less than minDelayBetweenCaptures since the start time of the last
\* accepted run, and is accepted (202) when that interval has elapsed; the
\* first Start of a fresh instance is never answered 429
C6_RateLimit ==
    [][\A r \in Reqs :
          /\ (hpc[r] = "checkRate" /\ hpc'[r] # "checkRate") =>
                IF HasAccepted /\ now' - LastStart < minDelayBetweenCaptures
                  THEN hpc'[r] = "rateReset"
                  ELSE hpc'[r] = "start"
          /\ (hpc[r] = "rateReset" /\ hpc'[r] # "rateReset") => status'[r] = 429
          /\ (hpc[r] = "start" /\ hpc'[r] # "start") => status'[r] = 202]_vars

\* after an accepted run a Start was answered 429, and a later one, issued
\* exactly when the interval had elapsed, was accepted
C6_Witness ==
    \E a, b, c \in Reqs :
        /\ a < b /\ b < c
        /\ status[a] = 202 /\ status[b] = 429 /\ status[c] = 202
        /\ acceptedAt[c] - acceptedAt[a] = minDelayBetweenCaptures

(* ------------------------------- C7 ----------------------------------- *)
\* C7: when a Start is answered 429 the running flag is false, as it was
\* before the request took it, and the last-start timestamp and the
\* cancellation handle are the ones the request found
C7_RateLimitedFrame ==
    [][\A r \in Reqs :
          (hpc[r] = "rateReset" /\ status'[r] = 429) =>
              /\ snap[r].set /\ snap[r].running = FALSE
              /\ running' = FALSE
              /\ lastCaptureAt' = snap[r].last
              /\ captureCancel' = snap[r].cancel]_vars

\* a Start was answered 429 during the cool-down of an earlier run, whose
\* timestamp is still the stored one
C7_Witness ==
    \E a, b \in Reqs :
        /\ a < b /\ status[a] = 202 /\ status[b] = 429
        /\ lastCaptureAt = acceptedAt[a] /\ ~running

(* ------------------------------- C8 ----------------------------------- *)
\* C8: a Start that is answered 409, 429 or 503 starts no sequencer run, and
\* no step of it publishes a status event or sends to an observer; the 503
\* of an instance without RunCapture leaves the running flag, the timestamp
\* and the handle as they were
C8_RejectionIsSilent ==
    [][\A r \in Reqs :
          /\ (hpc[r] # hpc'[r] /\ status'[r] # 202) =>
                /\ published' = published /\ chan' = chan
                /\ gpc' = gpc /\ seqpc' = seqpc
          /\ status'[r] \in {409, 429, 503} => gpc'[r] = "none"
          /\ (status[r] # 503 /\ status'[r] = 503) =>
                /\ running' = running
                /\ lastCaptureAt' = lastCaptureAt
                /\ captureCancel' = captureCancel]_vars

\* an observer is subscribed while one Start has been answered 409 and
\* another 429
C8_Witness ==
    /\ clients # {}
    /\ \E a, b \in Reqs : status[a] = 409 /\ status[b] = 429

\* a Start on an instance without RunCapture has been answered 503
C8_WitnessNotConfigured ==
    RunCapture = "nil" /\ \E r \in Reqs : status[r] = 503

(* ------------------------------- C9 ----------------------------------- *)
\* no accepted run is unfinished
NoActiveRun ==
    \A id \in Reqs : hpc[id] # "start" /\ gpc[id] \in {"none", "done"}

\* C9: a Cancel with no active run is answered 409 and changes nothing: not
\* the running flag, the timestamp or the handle, no context is cancelled,
\* no event is published, and no Start request is disturbed
C9_CancelWithoutRun ==
    [][\A c \in Cancels :
          (cpc[c] = "idle" /\ cpc'[c] # "idle" /\ NoActiveRun) =>
              /\ cstatus'[c] = 409 /\ cpc'[c] = "done"
              /\ running' = running
              /\ lastCaptureAt' = lastCaptureAt
              /\ captureCancel' = captureCancel
              /\ ctxDone' = ctxDone
              /\ published' = published /\ chan' = chan
              /\ hpc' = hpc /\ status' = status /\ gpc' = gpc]_vars

\* a Cancel was answered 409 after a run had finished, and a Start has been
\* accepted since
C9_Witness ==
    \E c \in Cancels, a, b \in Reqs :
        /\ cstatus[c] = 409
        /\ a < b /\ gpc[a] = "done" /\ ~ctxDone[a] /\ ~ctxDone[b]
        /\ status[b] = 202

(* ------------------------------- C10 ---------------------------------- *)
\* C10 as stated: a Cancel accepted while RunCapture executes makes that run
\* end with the cancellation outcome and a warning event containing the word
\* "cancelled" (runs that end with an error of their own are left aside here)
C10_CancelAlwaysCancels ==
    \A id \in Reqs :
        (/\ signalledInRun[id] /\ Published(id)
         /\ result[id] \notin {"config", "hardware"}) =>
            /\ result[id] = "canceled"
            /\ EventsOf(id)[1].l = "warning"
            /\ HasWord(EventsOf(id)[1].msg, "cancelled")

\* C10 as amended: a run whose sequencer reaches a boundary check after its
\* context has been cancelled returns the cancellation error there, and a run
\* that returned the cancellation error was cancelled and publishes a warning
\* event containing the word "cancelled"; a run signalled after its last
\* boundary check ends with its own outcome
C10_CancelAtNextBoundary ==
    /\ [][\A id \in Reqs :
            (/\ seqpc[id] = "check" /\ seqpc'[id] # "check"
             /\ iter[id] < SeqIters /\ ctxDone[id])
            => result'[id] = "canceled"]_vars
    /\ [](\A id \in Reqs :
            /\ result[id] = "canceled" => ctxDone[id]
            /\ (result[id] = "canceled" /\ Published(id)) =>
                 /\ EventsOf(id)[1].l = "warning"
                 /\ HasWord(EventsOf(id)[1].msg, "cancelled"))

\* a Cancel was answered 200 during a run, and that run has ended cancelled
C10_Witness ==
    \E id \in Reqs, c \in Cancels :
        /\ cstatus[c] = 200 /\ clocal[c] = id /\ signalledInRun[id]
        /\ gpc[id] = "done" /\ result[id] = "canceled"

(* ------------------------------- C11 ---------------------------------- *)
\* C11: any number of Cancel calls for one run is safe. Every Cancel is
\* answered 200 or 409; a Cancel that finds the handle cleared is answered 409
\* and changes nothing; a Cancel that read a run's handle cancels that run's
\* context only, whenever it makes the call, so that a context is cancelled
\* only by a Cancel that read its own handle; and a run that was cancelled
\* several times still publishes exactly one terminal event
C11_RepeatedCancelSafe ==
    /\ [][\A c \in Cancels :
            /\ (cpc[c] = "idle" /\ cpc'[c] # "idle" /\ captureCancel = 0) =>
                  /\ cstatus'[c] = 409 /\ cpc'[c] = "done"
                  /\ ctxDone' = ctxDone
                  /\ running' = running /\ captureCancel' = captureCancel
                  /\ lastCaptureAt' = lastCaptureAt
                  /\ gpc' = gpc /\ published' = published
            /\ (cpc[c] = "call" /\ cpc'[c] # "call") =>
                  /\ cstatus'[c] = 200 /\ cpc'[c] = "done"
                  /\ ctxDone'[clocal[c]]
                  /\ \A id \in Reqs \ {clocal[c]} : ctxDone'[id] = ctxDone[id]
                  /\ running' = running /\ captureCancel' = captureCancel
                  /\ gpc' = gpc /\ published' = published]_vars
    /\ [](\A id \in Reqs :
            /\ Published(id) => Len(EventsOf(id)) = 1
            /\ ctxDone[id] =>
                  \E c \in Cancels : clocal[c] = id /\ cstatus[c] = 200)
    /\ [](\A c \in Cancels : cpc[c] = "done" => cstatus[c] \in {200, 409})

\* two Cancels were answered 200 for the same run, which has ended with one
\* terminal event; the second made its call after a later run had been
\* accepted, and that run ended with success
C11_Witness ==
    \E a, b \in Reqs :
        /\ a < b
        /\ \A c \in Cancels : cstatus[c] = 200 /\ clocal[c] = a
        /\ gpc[a] = "done" /\ Len(EventsOf(a)) = 1
        /\ gpc[b] = "done" /\ result[b] = "nil" /\ ~ctxDone[b]

(* ------------------------------- C12 ---------------------------------- *)
\* the running flag is held on behalf of a request or a run
FlagOwned ==
    \E r \in Reqs :
        \/ hpc[r] \in {"checkRate", "rateReset", "start"}
        \/ gpc[r] \in {"run", "publish", "clearCancel", "clearRunning"}

\* C12: whatever RunCapture returned, once it has returned the goroutine
\* reaches a state in which the running flag is false and the handle nil;
\* the flag is never left set with no request or run behind it; and a valid
\* Start that finds the flag clear passes the running test, and passes the
\* rate test when the cool-down interval has elapsed since the last start
C12_AdmissionRestored ==
    /\ \A id \in Reqs :
          (gpc[id] = "publish") ~>
              (gpc[id] = "done" /\ ~running /\ captureCancel = 0)
    /\ [](running => FlagOwned)
    /\ [](NoActiveRun => captureCancel = 0)
    /\ [][\A r \in Reqs :
            /\ (/\ hpc[r] = "idle" /\ hpc'[r] # "idle"
                /\ status'[r] # 400 /\ RunCapture = "fn" /\ ~running)
               => hpc'[r] = "checkRate"
            /\ (/\ hpc[r] = "checkRate" /\ hpc'[r] # "checkRate"
                /\ now' - lastCaptureAt >= minDelayBetweenCaptures)
               => hpc'[r] = "start"
            /\ (hpc[r] = "start" /\ hpc'[r] # "start") =>
                  status'[r] = 202 /\ gpc'[r] = "run"]_vars

\* a run ended with a configuration error, and a Start issued when the
\* cool-down interval had elapsed has been accepted
C12_Witness ==
    \E a, b \in Reqs :
        /\ a < b
        /\ gpc[a] = "done" /\ result[a] = "config"
        /\ status[b] = 202
        /\ acceptedAt[b] - acceptedAt[a] >= minDelayBetweenCaptures

(* ------------------------- RunGridShot: notions ----------------------- *)
\* RunGridShot has returned
Returned == spc = "ret"

\* the calls made so far that are moves, and those that are torque commands
IsMove(c) == c.op \in {"MovePan", "MoveTilt"}
IsTorque(c) == c.op \in {"EnableMotors", "DisableMotors"}

\* the calls InitializePosition makes for the plan
StartMoves ==
    (IF plan.StartPanSteps = 0 THEN 0 ELSE 1)
    + (IF plan.StartTiltSteps = 0 THEN 0 ELSE 1)

(* ------------------------------- C13 ---------------------------------- *)
\* C13: a RunGridShot whose context is never done and whose hardware calls
\* all succeed returns nil, and a RunGridShot that returns nil has called
\* Shoot exactly PanColumns x TiltRows times; no run calls it more often
C13_ShotCount ==
    /\ shots <= plan.PanColumns * plan.TiltRows
    /\ Returned =>
          /\ ret = "nil" => shots = plan.PanColumns * plan.TiltRows
          /\ (ctxErr = "nil" /\ ret \notin MoveErrs \cup ShootErrs) => ret = "nil"

\* an uncancelled run over a grid of several columns and several rows has
\* returned nil
C13_Witness ==
    /\ Returned /\ ret = "nil" /\ ctxErr = "nil"
    /\ plan.PanColumns = MaxCols /\ plan.TiltRows = MaxRows
    /\ shots = MaxCols * MaxRows

(* ------------------------------- C14 ---------------------------------- *)
\* C14 as stated: a RunGridShot called with a context that is already done
\* returns the context's error and has called Shoot zero times
C14_PreCancelledReturnsCtxErr ==
    (Returned /\ cancelAt = "call") => (ret = ctxErr /\ shots = 0)

\* C14 as amended: a RunGridShot called with a context that is already done
\* never calls Shoot and makes no move beyond those of InitializePosition;
\* it returns the context's error, unless a start move fails, in which case
\* it returns that move's error
C14_PreCancelledNoShot ==
    cancelAt = "call" =>
        /\ shots = 0
        /\ Len(SelectSeq(cmds, IsMove)) <= StartMoves
        /\ Returned => (ret = ctxErr \/ ret \in MoveErrs)
        /\ (Returned /\ ret \in MoveErrs) => col = 0 /\ row = 0

\* called with a cancelled context, RunGridShot made both start moves and
\* returned the context's error without a shot
C14_Witness ==
    /\ cancelAt = "call" /\ Returned /\ ret = Canceled
    /\ shots = 0 /\ Len(SelectSeq(cmds, IsMove)) = 2

(* ------------------------------- C15 ---------------------------------- *)
\* C15: the context is consulted at the top of every column and of every
\* row: a loop body is entered only with the context not done, and a check
\* that finds it done returns the context's error without a further call.
\* The context's error is returned by these checks only. A call that is in
\* flight returns before RunGridShot does anything else, and is not ended
\* by the cancellation. After the return no call is made. The context's
\* errors differ from every hardware error
C15_CancelAtBoundaries ==
    /\ [][/\ (spc = "colCheck" /\ spc' # spc /\ col < plan.PanColumns /\ ctxErr # "nil")
               => (Returned' /\ ret' = ctxErr /\ cmds' = cmds /\ shots' = shots)
          /\ (spc = "rowCheck" /\ spc' # spc /\ row < plan.TiltRows /\ ctxErr # "nil")
               => (Returned' /\ ret' = ctxErr /\ cmds' = cmds /\ shots' = shots)
          /\ (ret' \in CtxErrs /\ ret \notin CtxErrs)
               => (spc \in {"colCheck", "rowCheck"} /\ ret' = ctxErr)
          /\ (inflight # "none" /\ (spc' # spc \/ inflight' # inflight))
               => (inflight' = "none" /\ ret' \notin CtxErrs /\ cmds' = cmds)
          /\ Returned => (cmds' = cmds /\ shots' = shots /\ ret' = ret)]_vars
    /\ [](CtxErrs \cap (MoveErrs \cup ShootErrs) = {})

\* the context was cancelled while a shot was in flight; the shot was
\* completed, the torque re-enabled, and the next row check returned the
\* cancellation with part of the grid taken
C15_Witness ==
    /\ cancelAt = "Shoot" /\ Returned /\ ret = Canceled
    /\ shots >= 2 /\ shots < plan.PanColumns * plan.TiltRows
    /\ cmds[Len(cmds)].op = "EnableMotors"

(* ------------------------------- C16 ---------------------------------- *)
\* the torque command in force before the i-th call: the last one issued
\* before it (the steppers are enabled when they are created)
TorqueBefore(i) ==
    LET ts == {j \in 1..(i - 1) : IsTorque(cmds[j])}
    IN IF ts = {} THEN "EnableMotors"
       ELSE cmds[CHOOSE j \in ts : \A k \in ts : k <= j].op

\* C16: every Shoot call comes directly after a DisableMotors command and,
\* when it succeeds, is directly followed by an EnableMotors command; so
\* every move is called with enable as the torque command in force, and
\* every Shoot with disable
C16_TorqueBrackets ==
    /\ \A i \in 1..Len(cmds) :
          /\ cmds[i].op = "Shoot" =>
                /\ i > 1 /\ cmds[i - 1].op = "DisableMotors"
                /\ i < Len(cmds) => cmds[i + 1].op = "EnableMotors"
                /\ TorqueBefore(i) = "DisableMotors"
          /\ IsMove(cmds[i]) => TorqueBefore(i) = "EnableMotors"
    /\ inflight = "Shoot" => torque = "disable"
    /\ inflight \in {"MovePan", "MoveTilt"} => torque = "enable"

\* a full grid was taken: shots with tilt and pan moves between them
C16_Witness ==
    /\ Returned /\ ret = "nil" /\ shots >= 4
    /\ \E i, j \in 1..Len(cmds) : cmds[i].op = "MovePan" /\ cmds[j].op = "MoveTilt"
                                   /\ i > StartMoves + 1 /\ j > StartMoves + 1

(* ------------------------------- C17 ---------------------------------- *)
\* C17: when Shoot fails, the next call RunGridShot makes is EnableMotors,
\* it is the last one, and RunGridShot returns the error Shoot returned
C17_ShootFailure ==
    /\ shootErr # "nil" => spc \in {"failed", "ret"}
    /\ spc = "failed" =>
          /\ shootErr \in ShootErrs
          /\ cmds[Len(cmds)].op = "Shoot"
    /\ (Returned /\ shootErr # "nil") =>
          /\ ret = shootErr
          /\ cmds[Len(cmds)].op = "EnableMotors"
          /\ cmds[Len(cmds) - 1].op = "Shoot"
          /\ torque = "enable"
          /\ Len(SelectSeq(cmds, LAMBDA c : c.op = "Shoot")) = shots
    /\ (Returned /\ ret \in ShootErrs) => shootErr = ret

\* the second shot of a run failed and RunGridShot has returned its error
C17_Witness ==
    /\ Returned /\ ret = "camera: shutter failed" /\ shots = 2
    /\ torque = "enable"

(* ------------------------- broadcaster: notions ----------------------- *)
\* message m is in the sequence q
InSeq(q, m) == \E i \in 1..Len(q) : q[i] = m

\* the messages of producer p in q, in the order of q
From(q, p) == SelectSeq(q, LAMBDA e : e.run = p)

(* ------------------------------- C18 ---------------------------------- *)
\* C18: a Broadcast call in its loop can make each of its pending sends at
\* once, whatever the state of the buffers; it makes at most one send per
\* client, and exactly one to every client before it returns; a send to a
\* client whose buffer holds ChanCap messages leaves the buffer as it is,
\* a send to any other client appends the message, and no send touches
\* another client's buffer
C18_BroadcastNeverBlocks ==
    /\ [](\A p \in Producers : \A o \in todo[p] : ENABLED Broadcast_Send(p, o))
    /\ [](\A p \in Producers : bpc[p] = "loop" =>
              ENABLED (Broadcast_End(p) \/ \E o \in Subs : Broadcast_Send(p, o)))
    /\ [](\A p \in Producers, o \in Subs : tried[p][o] <= 1)
    /\ [][\A p \in Producers :
            /\ \A o \in Subs :
                  (bpc[p] = "loop" /\ o \in todo[p] /\ o \notin todo'[p]) =>
                      /\ chan'[o] = IF Len(chan[o]) = ChanCap THEN chan[o]
                                    ELSE Append(chan[o], Line(p, nsent[p]))
                      /\ \A q \in Subs \ {o} : chan'[q] = chan[q]
            /\ (bpc[p] = "loop" /\ bpc'[p] = "idle") =>
                  \A o \in clients : tried[p][o] = 1]_vars

\* a Broadcast has returned after one send to each of two clients: the one
\* whose buffer was full still holds its backlog only, the other holds the
\* message
C18_Witness ==
    \E p \in Producers :
        /\ bpc[p] = "idle" /\ nsent[p] = 1
        /\ tried[p][1] = 1 /\ tried[p][2] = 1
        /\ chan[1] = Backlog(ChanCap)
        /\ InSeq(chan[2], Line(p, 1))

(* ------------------------------- C19 ---------------------------------- *)
\* C19: every client a Broadcast has yet to send to is in the map and its
\* channel is open; once unsub has removed a channel nothing is sent to it,
\* and when unsub has returned the channel is closed; Broadcast changes no
\* channel outside its sends, and a Broadcast that finds no client makes no
\* send
C19_NoSendOnClosed ==
    /\ [](\A p \in Producers : \A o \in todo[p] : o \in clients /\ ~closed[o])
    /\ [](\A o \in Subs :
            /\ opc[o] = "gone" => (closed[o] /\ o \notin clients)
            /\ closed[o] => opc[o] = "gone")
    /\ [][/\ \A o \in Subs :
               opc[o] \in {"closing", "gone"} =>
                   (chan'[o] = chan[o] /\ opc'[o] # "streaming")
          /\ \A p \in Producers :
               /\ bpc'[p] # bpc[p] => chan' = chan
               /\ (bpc[p] = "idle" /\ bpc'[p] = "loop" /\ clients = {}) =>
                     todo'[p] = {}
               /\ (bpc[p] = "loop" /\ todo[p] = {} /\ <<bpc'[p], todo'[p]>> # <<bpc[p], todo[p]>>)
                     => (bpc'[p] = "idle" /\ chan' = chan)]_vars

\* every observer has unsubscribed and its channel is closed, and a
\* Broadcast that began after the last unsubscribe is in progress
C19_Witness ==
    /\ clients = {}
    /\ \A o \in Subs : opc[o] = "gone" /\ closed[o]
    /\ \E p \in Producers : bpc[p] = "loop" /\ todo[p] = {} /\ nsent[p] = MaxMsgs

(* ------------------------------- C20 ---------------------------------- *)
\* C20: for every observer and every producer, the producer's messages the
\* observer has read, followed by those waiting in its buffer, carry
\* strictly increasing publication numbers (each less than the next): none
\* is out of order, none appears twice
C20_PerProducerFIFO ==
    \A o \in Subs : \A p \in 0..NumProd :
        LET s == From(received[o] \o chan[o], p)
        IN \A i \in 1..(Len(s) - 1) : s[i].msg[1] < s[i + 1].msg[1]

\* an observer has read the first messages of two producers and holds the
\* second message of each in its buffer
C20_Witness ==
    \E o \in Subs : \E p, q \in Producers :
        /\ p # q
        /\ received[o] = <<Line(p, 1), Line(q, 1)>>
        /\ InSeq(chan[o], Line(p, 2)) /\ InSeq(chan[o], Line(q, 2))

(* ------------------------------- C21 ---------------------------------- *)
\* a step of a status-stream observer: subscribe, read, disconnect, close
ObserverStep ==
    \/ opc' # opc
    \/ clients' # clients
    \/ closed' # closed
    \/ delivered' # delivered

\* C21: the context of a run is signalled only by the cancel() of a
\* HandleCancel call, on the handle that call read; the step that ends a
\* Start request (with any status) signals no context, and with 202 it leaves
\* the flag set; a step of an observer (subscribe, read, disconnect, close)
\* changes neither the flag, the handle, a context nor a goroutine's
\* position; a run leaves RunCapture only by the sequencer's return, and
\* with the cancellation error only when its context was signalled
C21_LifetimeIndependent ==
    [][ /\ (ctxDone' # ctxDone =>
              \E c \in Cancels :
                  /\ cpc[c] = "call" /\ cpc'[c] = "done"
                  /\ ctxDone' = [ctxDone EXCEPT ![clocal[c]] = TRUE])
        /\ \A r \in Reqs :
              (hpc[r] # "done" /\ hpc'[r] = "done") =>
                  /\ ctxDone' = ctxDone
                  /\ (status'[r] = 202 => running /\ running' /\ captureCancel' = r)
        /\ (ObserverStep => UNCHANGED <<admission, ctxDone, gvars>>)
        /\ \A id \in Reqs :
              (gpc[id] = "run" /\ gpc'[id] # "run") =>
                  /\ seqpc'[id] = "ret" /\ gpc'[id] = "publish"
                  /\ (result'[id] = "canceled" => ctxDone[id])
      ]_vars

\* a run is executing, unsignalled and with the flag set, after its Start
\* request was answered 202 and an observer that read the previous run's
\* terminal event has disconnected
C21_Witness ==
    \E id \in Reqs : \E o \in Obs :
        /\ hpc[id] = "done" /\ status[id] = 202
        /\ gpc[id] = "run" /\ ~ctxDone[id] /\ running /\ captureCancel = id
        /\ opc[o] = "gone" /\ closed[o]
        /\ \E e \in delivered[o] : e.run # id

(* ------------------------------- C22 ---------------------------------- *)
\* the three fields an override can replace
Overridable(c) == <<c.HorizontalAngleDeg, c.VerticalAngleDeg, c.FocalLengthMm>>

Within(x, lo, hi, open) ==
    /\ x.k = "fin"
    /\ IF open THEN x.n > 2 * lo ELSE x.n >= 2 * lo
    /\ x.n <= 2 * hi

\* HandleRun, begun by request r with the body o, answers 400
Answers400(r, o) == ENABLED (HandleRun_Admit(r, o) /\ status'[r] = 400)

IsCount(n, total, rotation) ==
    /\ n >= 1
    /\ RLe(total, RMul(Rat(n, 1), rotation))
    /\ n > 1 => ~RLe(total, RMul(Rat(n - 1, 1), rotation))

\* C24: every grid plan computed from a configuration whose rotation angles
\* are positive has PanColumns = max(1, ceil(totalPanAngle /
\* panRotationAngle)) and TiltRows = max(1, ceil(totalTiltAngle /
\* tiltRotationAngle)): both are at least 1 and count x rotationAngle is at
\* least the total angle
C24_GridCounts ==
    (gridPlan # <<>> /\ runCfg[1].OverlapPercent.n < 200) =>
        /\ IsCount(gridPlan[1].PanColumns, Val(runCfg[1].HorizontalAngleDeg),
                   HorizontalRotationAngle(runCfg[1]))
        /\ IsCount(gridPlan[1].TiltRows, Val(runCfg[1].VerticalAngleDeg),
                   VerticalRotationAngle(runCfg[1]))

\* a plan for a total horizontal angle of half a degree, far below the field
\* of view, has one column, and its rows, more than one, overshoot the total
\* vertical angle
C24_Witness ==
    /\ gridPlan # <<>>
    /\ runCfg[1].OverlapPercent.n < 200
    /\ runCfg[1].HorizontalAngleDeg = Fin(1)
    /\ gridPlan[1].PanColumns = 1
    /\ gridPlan[1].TiltRows > 1
    /\ ~RLe(RMul(Rat(gridPlan[1].TiltRows, 1), VerticalRotationAngle(runCfg[1])),
            Val(runCfg[1].VerticalAngleDeg))

(* ------------------------------- C25 ---------------------------------- *)
\* -a
RNeg(a) == Rat(-a.num, a.den)

\* the angles the planner converts for the configuration c, their
\* opposites, and zero
PlanAngles(c) ==
    LET A == {HorizontalRotationAngle(c), VerticalRotationAngle(c),
              StartPanAngle(c), VerticalHalfAngleDeg(c), Rat(0, 1)}
    IN A \cup {RNeg(a) : a \in A}

\* n is x with its fraction dropped: n has the sign of x or is zero, |n| is
\* at most |x| and |n| + 1 is above |x|
IsTruncation(n, x) ==
    /\ (x.num >= 0 => n >= 0) /\ (x.num <= 0 => n <= 0)
    /\ LET m == IF n < 0 THEN -n ELSE n
           y == IF x.num < 0 THEN RNeg(x) ELSE x
       IN RLe(Rat(m, 1), y) /\ ~RLe(Rat(m + 1, 1), y)

\* C25: for the configuration of every planned run and every angle a among
\* those the planner converts, their opposites and zero, PanStepsFromAngle(a)
\* is a x (pan stepsPerRev x microstepping) / 360 with its fraction dropped,
\* and TiltStepsFromAngle(a) likewise with the tilt values; the steps of -a
\* are the opposite of the steps of a; the steps of 0 are 0; and replacing
\* the other axis's stepper configuration changes nothing
C25_StepsFromAngle ==
    gridPlan # <<>> =>
        LET c == runCfg[1]
            s == NewStepsCalculator(c)
            N(axis) == axis.StepsPerRev * axis.Microstepping
        IN \A a \in PlanAngles(c) :
            /\ IsTruncation(PanStepsFromAngle(s, a),
                            RMul(a, Rat(N(c.Steppers.pan), 360)))
            /\ IsTruncation(TiltStepsFromAngle(s, a),
                            RMul(a, Rat(N(c.Steppers.tilt), 360)))
            /\ PanStepsFromAngle(s, RNeg(a)) = -PanStepsFromAngle(s, a)
            /\ TiltStepsFromAngle(s, RNeg(a)) = -TiltStepsFromAngle(s, a)
            /\ a.num = 0 => PanStepsFromAngle(s, a) = 0 /\ TiltStepsFromAngle(s, a) = 0
            /\ \A other \in {[StepsPerRev |-> 400, Microstepping |-> 1],
                             [StepsPerRev |-> 200, Microstepping |-> 32]} :
                  /\ PanStepsFromAngle(
                        NewStepsCalculator([c EXCEPT !.Steppers.tilt = other]), a)
                       = PanStepsFromAngle(s, a)
                  /\ TiltStepsFromAngle(
                        NewStepsCalculator([c EXCEPT !.Steppers.pan = other]), a)
                       = TiltStepsFromAngle(s, a)

\* a plan whose pan start angle, negative, has a step-equivalent with a
\* fraction: the start steps are the integer next to it on the side of zero,
\* and the tilt calculator gives another count for the same angle
C25_Witness ==
    /\ gridPlan # <<>>
    /\ LET c == runCfg[1]
           s == NewStepsCalculator(c)
           x == RMul(StartPanAngle(c), s.panStepsPerDegree)
       IN /\ x.num < 0
          /\ gridPlan[1].StartPanSteps = PanStepsFromAngle(s, StartPanAngle(c))
          /\ ~RLe(Rat(gridPlan[1].StartPanSteps, 1), x)
          /\ RLe(Rat(gridPlan[1].StartPanSteps - 1, 1), x)
          /\ TiltStepsFromAngle(s, StartPanAngle(c)) # gridPlan[1].StartPanSteps

(* ------------------------------- C26 ---------------------------------- *)
\* C26: every grid plan computed for total angles H and V has StartPanAngle
\* = -H/2 and StartTiltAngle = +V/2, start steps that are these angles'
\* step-equivalents with the fraction dropped, StartPanSteps <= 0 and
\* StartTiltSteps >= 0
C26_StartOffsets ==
    gridPlan # <<>> =>
        LET c == runCfg[1]
            s == NewStepsCalculator(c)
            p == gridPlan[1]
        IN /\ c.HorizontalAngleDeg.n > 0 /\ c.VerticalAngleDeg.n > 0
           /\ LET h == RNeg(RMul(Val(c.HorizontalAngleDeg), Rat(1, 2)))
                  v == RMul(Val(c.VerticalAngleDeg), Rat(1, 2))
              IN /\ RLe(p.StartPanAngle, h) /\ RLe(h, p.StartPanAngle)
                 /\ RLe(p.StartTiltAngle, v) /\ RLe(v, p.StartTiltAngle)
           /\ IsTruncation(p.StartPanSteps,
                           RMul(p.StartPanAngle, s.panStepsPerDegree))
           /\ IsTruncation(p.StartTiltSteps,
                           RMul(p.StartTiltAngle, s.tiltStepsPerDegree))
           /\ p.StartPanSteps <= 0
           /\ p.StartTiltSteps >= 0

\* a plan for 360 degrees by 180 degrees with 3200 pan and 1600 tilt
\* microsteps per revolution starts 1600 steps left of home and 400 above
C26_Witness ==
    /\ gridPlan # <<>>
    /\ runCfg[1].HorizontalAngleDeg = Fin(720)
    /\ runCfg[1].VerticalAngleDeg = Fin(360)
    /\ gridPlan[1].StartPanSteps = -1600
    /\ gridPlan[1].StartTiltSteps = 400

(* ------------------------------- C27 ---------------------------------- *)
\* C27: every configuration Load accepted has an overlap ratio below 1, and
\* every grid plan is computed from rotation angles that are above zero, so
\* that neither count divides by zero
C27_OverlapBelowOne ==
    /\ mpc \in {"flags", "serve", "oneshot"} =>
          RLe(OverlapRatio(cfg), Rat(1, 1)) /\ ~RLe(Rat(1, 1), OverlapRatio(cfg))
    /\ gridPlan # <<>> =>
          /\ HorizontalRotationAngle(runCfg[1]).num > 0
          /\ VerticalRotationAngle(runCfg[1]).num > 0

(* ------------------------------- C28 ---------------------------------- *)
\* the moves and shots made after the initialization, in order
Traversal ==
    LET s == SelectSeq(cmds, LAMBDA c : IsMove(c) \/ c.op = "Shoot")
    IN SubSeq(s, StartMoves + 1, Len(s))

\* the k-th call of the serpentine over the plan: per column c, a shot, then
\* TiltRows - 1 times a tilt move (down when c is even, up when odd) and a
\* shot, then a pan move to the right
Serpentine(k) ==
    LET c == (k - 1) \div (2 * plan.TiltRows)
        j == (k - 1) % (2 * plan.TiltRows)
    IN IF j = 2 * plan.TiltRows - 1 THEN Cmd("MovePan", plan.PanStepSize)
       ELSE IF j % 2 = 0 THEN Cmd("Shoot", 0)
       ELSE Cmd("MoveTilt", IF c % 2 = 0 THEN -plan.TiltStepSize
                                          ELSE plan.TiltStepSize)

\* C28: the moves and shots RunGridShot makes after the initialization are,
\* call by call, those of the serpentine (no tilt move before the first shot
\* of a column, tilt moves of -TiltStepSize in even and +TiltStepSize in odd
\* columns, a pan move of +PanStepSize after each column), and a run that
\* returns nil has stopped after the last shot of the last column: m - 1 pan
\* moves, m x (n - 1) tilt moves, no pan move after the last column
C28_Serpentine ==
    /\ \A k \in 1..Len(Traversal) : Traversal[k] = Serpentine(k)
    /\ (Returned /\ ret = "nil") =>
          /\ Len(Traversal) = 2 * plan.TiltRows * plan.PanColumns - 1
          /\ Len(SelectSeq(Traversal, LAMBDA c : c.op = "MovePan"))
               = plan.PanColumns - 1
          /\ Len(SelectSeq(Traversal, LAMBDA c : c.op = "MoveTilt"))
               = plan.PanColumns * (plan.TiltRows - 1)
          /\ Traversal[Len(Traversal)].op = "Shoot"

\* a complete run over three columns and three rows: the second column was
\* traversed upwards, the third downwards again
C28_Witness ==
    /\ Returned /\ ret = "nil"
    /\ plan.PanColumns = 3 /\ plan.TiltRows = 3
    /\ Traversal[8] = Cmd("MoveTilt", plan.TiltStepSize)
    /\ Traversal[14] = Cmd("MoveTilt", -plan.TiltStepSize)
    /\ Traversal[12] = Cmd("MovePan", plan.PanStepSize)

(* ------------------------------- C29 ---------------------------------- *)
\* the calls InitializePosition makes for the plan when none fails: the pan
\* move, then the tilt move, none for an axis whose start steps are zero
InitCalls ==
    (IF plan.StartPanSteps = 0 THEN <<>>
     ELSE <<Cmd("MovePan", plan.StartPanSteps)>>)
    \o (IF plan.StartTiltSteps = 0 THEN <<>>
        ELSE <<Cmd("MoveTilt", plan.StartTiltSteps)>>)

\* C29: the first moves of RunGridShot are the start moves the plan asks
\* for, pan before tilt and none for an axis whose start-step value is zero;
\* until the initialization is over no shot and no other move is made; a
\* start move either succeeds, and the initialization goes on, or fails,
\* and RunGridShot returns its error at once; nothing is called after a
\* return (so a failed pan move is followed by no tilt move, and a failed
\* start move by no shot and no traversal move)
C29_InitFatal ==
    /\ [](LET s == SelectSeq(cmds, LAMBDA c : IsMove(c) \/ c.op = "Shoot")
          IN /\ \A k \in 1..Len(s) : k <= Len(InitCalls) => s[k] = InitCalls[k]
             /\ spc \in {"enable", "initPan", "initTilt"} =>
                   shots = 0 /\ Len(s) <= Len(InitCalls))
    /\ [][/\ (spc \in {"initPan", "initTilt"} /\ inflight # "none"
                /\ inflight' = "none") =>
                 \/ ret' = ret /\ spc' = (IF spc = "initPan" THEN "initTilt"
                                         ELSE "colCheck")
                 \/ Returned' /\ ret' \in MoveErrs /\ cmds' = cmds /\ shots' = 0
          /\ (spc \in {"initPan", "initTilt"} /\ Returned') => ret' \in MoveErrs
          /\ Returned => UNCHANGED <<spc, ret, cmds, shots, inflight>>]_vars

\* the pan start move failed: RunGridShot has returned its error after the
\* calls EnableMotors and MovePan only, though the plan has a tilt start
\* move too
C29_Witness ==
    /\ Returned /\ ret \in MoveErrs
    /\ plan.StartTiltSteps # 0
    /\ cmds = <<Cmd("EnableMotors", 0), Cmd("MovePan", plan.StartPanSteps)>>
    /\ shots = 0

(* ------------------------------- C30 ---------------------------------- *)
\* C30: the steppers are commanded in the order of the method: MovePanTilt
\* the pan stepper and then the tilt stepper, MovePan the pan stepper only,
\* MoveTilt the tilt stepper only, each with the caller's step count; the
\* GPIO writes of the pan move all precede those of the tilt move; once a
\* write of the pan move has failed the tilt stepper has no command; the
\* method returns the failed write's error as it is, nil when no write
\* failed, and it returns nil only after all its moves
C30_PanThenTilt ==
    LET MoveCalls ==
            (IF mcall.op \in {"MovePan", "MovePanTilt"}
               THEN <<[axis |-> "pan", steps |-> mcall.panSteps]>> ELSE <<>>)
            \o (IF mcall.op \in {"MoveTilt", "MovePanTilt"}
                  THEN <<[axis |-> "tilt", steps |-> mcall.tiltSteps]>>
                ELSE <<>>)
        Failed == {i \in 1..Len(writes) : writes[i].err # "nil"}
        WriteFailure ==
            IF Failed = {} THEN "nil" ELSE writes[CHOOSE i \in Failed : TRUE].err
    IN /\ Len(moves) <= Len(MoveCalls)
       /\ \A k \in 1..Len(moves) : moves[k] = MoveCalls[k]
       /\ \A i, j \in 1..Len(writes) :
             (writes[i].axis = "tilt" /\ writes[j].axis = "pan") => j < i
       /\ \A i \in Failed :
             writes[i].axis = "pan" =>
                 \A k \in 1..Len(moves) : moves[k].axis = "pan"
       /\ Cardinality(Failed) <= 1
       /\ (mctl = "idle" /\ mcall.op # "none") =>
             /\ mret = WriteFailure
             /\ mret = sret
             /\ mret = "nil" => moves = MoveCalls

\* MovePanTilt has returned the error of a failed write of its pan move,
\* and the tilt stepper has no command
C30_Witness ==
    /\ mctl = "idle" /\ mcall.op = "MovePanTilt" /\ mcall.tiltSteps # 0
    /\ mret \in WriteErrs
    /\ moves = <<[axis |-> "pan", steps |-> mcall.panSteps]>>
    /\ writes[Len(writes)].axis = "pan" /\ writes[Len(writes)].err = mret

(* ------------------------------- C31 ---------------------------------- *)
\* C31: the GPIO writes of MoveSteps(k) are, in order, one write of the
\* direction pin (HIGH when k > 0, LOW when k < 0) and |k| pulses, each a
\* HIGH and then a LOW write of the step pin; none at all when k = 0; a
\* write that fails is the last one, and a MoveSteps that has returned
\* without a failed write has made them all; Enable and Disable make no
\* write on a stepper without enable pin, and else one write of the enable
\* pin, LOW for Enable and HIGH for Disable
C31_StepperContract ==
    LET Abs(k) == IF k < 0 THEN -k ELSE k
        Expected(k) ==
            IF k = 0 THEN <<>>
            ELSE <<[pin |-> "dir", level |-> IF k > 0 THEN "High" ELSE "Low"]>>
                 \o [i \in 1..(2 * Abs(k)) |->
                       [pin |-> "step",
                        level |-> IF i % 2 = 1 THEN "High" ELSE "Low"]]
        Over(a) == stp.axis # a \/ stp.at = "ret"
    IN /\ \A m \in 1..Len(moves) :
             LET a == moves[m].axis
                 x == Expected(moves[m].steps)
                 w == SelectSeq(writes, LAMBDA c : c.axis = a)
             IN /\ Len(w) <= Len(x)
                /\ \A i \in 1..Len(w) :
                      /\ w[i].pin = x[i].pin /\ w[i].level = x[i].level
                      /\ w[i].err # "nil" => i = Len(w)
                /\ Over(a) =>
                      \/ Len(w) = Len(x)
                      \/ Len(w) > 0 /\ w[Len(w)].err # "nil"
       /\ \A i \in 1..Len(writes) :
             \/ \E m \in 1..Len(moves) : moves[m].axis = writes[i].axis
             \/ scall.op # "none"
       /\ scall.op # "none" =>
             writes = IF enablePin[scall.axis] <= 0 THEN <<>>
                      ELSE <<[axis |-> scall.axis, pin |-> "enable",
                              level |-> IF scall.op = "Enable" THEN "Low"
                                        ELSE "High",
                              err |-> sret]>>

\* MoveSteps(-2) has returned nil on the pan stepper after the LOW write of
\* the direction pin and two pulses
C31_Witness ==
    /\ mctl = "idle" /\ mcall.op = "MovePan" /\ mcall.panSteps = -2
    /\ mret = "nil"
    /\ Len(writes) = 5
    /\ writes[1].pin = "dir" /\ writes[1].level = "Low"
    /\ writes[5].pin = "step" /\ writes[5].level = "Low"

(* ------------------------------- C32 ---------------------------------- *)
\* C32: a POST /cancel request sent to the server is answered by
\* HandleCancel: with 200 after the stored handle was called, or with 409
\* when no capture is in progress
C32_CancelRouted ==
    \A c \in Cancels : cpc[c] = "done" => cstatus[c] \in {200, 409}

(* ------------------------------- C33 ---------------------------------- *)
\* C33: whenever a cancellation handle is stored the running flag is true
\* and the handle is that of the request which took the flag last; the
\* deferred cleanup of a run clears the handle only while it is the run's
\* own, and no step but that cleanup and the Start that stores a handle
\* changes it
C33_HandleImpliesRunning ==
    /\ [](captureCancel # 0 => running /\ captureCancel = holder)
    /\ [][/\ \A id \in Reqs :
                (gpc[id] = "clearCancel" /\ gpc'[id] # "clearCancel") =>
                    captureCancel = id /\ captureCancel' = 0
          /\ captureCancel' # captureCancel =>
                \/ captureCancel = 0 /\ hpc[captureCancel'] = "start"
                \/ captureCancel' = 0 /\ gpc[captureCancel] = "clearCancel"]_vars

\* a second run holds the flag and the handle after the first run's cleanup
C33_Witness ==
    \E a, b \in Reqs :
        /\ a # b
        /\ gpc[a] = "done"
        /\ gpc[b] = "run"
        /\ captureCancel = b /\ running /\ holder = b

(* ------------------------------- C34 ---------------------------------- *)
\* C34: two valid Start requests are sent to a configured orchestrator
\* that is idle and has made no capture yet (its cool-down has elapsed),
\* no other request is admitted, and both are answered within less than
\* the cool-down: one of them is answered 202 and the other 409 or 429
C34_ExactlyOneWins ==
    \A a, b \in Reqs :
        (/\ a # b
         /\ RunCapture = "fn"
         /\ now < minDelayBetweenCaptures
         /\ hpc[a] = "done" /\ status[a] \in {202, 409, 429}
         /\ hpc[b] = "done" /\ status[b] \in {202, 409, 429}
         /\ \A c \in Reqs \ {a, b} : hpc[c] = "idle" \/ status[c] = 400)
        => \/ status[a] = 202 /\ status[b] \in {409, 429}
           \/ status[b] = 202 /\ status[a] \in {409, 429}

\* the first request was accepted and its run is over; the second, which
\* found the flag free, was turned down by the rate limit
C34_Witness ==
    /\ RunCapture = "fn" /\ now < minDelayBetweenCaptures
    /\ hpc[1] = "done" /\ status[1] = 202 /\ gpc[1] = "done"
    /\ hpc[2] = "done" /\ status[2] = 429
    /\ hpc[3] = "idle"

(* ------------------------------- C35 ---------------------------------- *)
\* C35 as stated: after the context is done RunGridShot calls Shoot at most
\* once more, MoveTilt at most once more and MovePan at most once more, and
\* when no call fails it returns the context's error
C35_ReturnsCancellation ==
    cancelLen >= 0 =>
        LET after == SubSeq(cmds, cancelLen + 1, Len(cmds))
            N(op) == Len(SelectSeq(after, LAMBDA c : c.op = op))
        IN /\ N("Shoot") <= 1 /\ N("MoveTilt") <= 1 /\ N("MovePan") <= 1
           /\ (Returned /\ ret \notin MoveErrs \cup ShootErrs) => ret = ctxErr

\* C35: after the context is done RunGridShot calls Shoot at most once
\* more, MoveTilt at most once more and MovePan at most once more; when no
\* call fails it returns the context's error, unless the context was done
\* only after the last boundary check: then it returns nil, having taken
\* the whole grid and made no pan move since
C35_BoundedAfterCancel ==
    cancelLen >= 0 =>
        LET after == SubSeq(cmds, cancelLen + 1, Len(cmds))
            N(op) == Len(SelectSeq(after, LAMBDA c : c.op = op))
        IN /\ N("Shoot") <= 1 /\ N("MoveTilt") <= 1 /\ N("MovePan") <= 1
           /\ (Returned /\ ret \notin MoveErrs \cup ShootErrs) =>
                 \/ ret = ctxErr
                 \/ /\ ret = "nil"
                    /\ shots = plan.PanColumns * plan.TiltRows
                    /\ N("MovePan") = 0

\* the context was done after a row check; the run made one tilt move, one
\* shot and one pan move more and returned the context's error
C35_Witness ==
    /\ Returned /\ ret = ctxErr /\ cancelLen >= 0
    /\ LET after == SubSeq(cmds, cancelLen + 1, Len(cmds))
       IN /\ \E i \in 1..Len(after) : after[i].op = "MoveTilt"
          /\ \E i \in 1..Len(after) : after[i].op = "Shoot"
          /\ \E i \in 1..Len(after) : after[i].op = "MovePan"

(* ------------------------------- C36 ---------------------------------- *)
\* C36 as stated: a RunGridShot called with a context that is done returns
\* the context's error after EnableMotors and the start moves of the plan,
\* and after no other call
C36_PreCancelledInitRuns ==
    (cancelAt = "call" /\ Returned) =>
        /\ ret = ctxErr
        /\ cmds = <<Cmd("EnableMotors", 0)>> \o InitCalls

\* C36: a RunGridShot whose context is done at the call, or before the
\* last call of the initialization is made, makes the calls of the
\* initialization all the same, EnableMotors and then the start moves of
\* the plan, and no other call; when no start move fails it returns the
\* context's error at the first check, before the first row, with the rig
\* moved by the start offset and no shot taken; when a start move fails it
\* returns that move's error
C36_InitIgnoresCancel ==
    LET init == <<Cmd("EnableMotors", 0)>> \o InitCalls
    IN (cancelAt = "call" \/ (cancelLen >= 0 /\ cancelLen < Len(init))) =>
          /\ Len(cmds) <= Len(init)
          /\ \A k \in 1..Len(cmds) : cmds[k] = init[k]
          /\ shots = 0
          /\ Returned =>
                \/ ret = ctxErr /\ cmds = init /\ col = 0
                \/ ret \in MoveErrs /\ Len(cmds) > 1

\* called with a context that is done, RunGridShot has enabled the motors,
\* made both start moves and returned the context's error
C36_Witness ==
    /\ cancelAt = "call" /\ Returned /\ ret = ctxErr
    /\ plan.StartPanSteps # 0 /\ plan.StartTiltSteps # 0
    /\ cmds = <<Cmd("EnableMotors", 0), Cmd("MovePan", plan.StartPanSteps),
                Cmd("MoveTilt", plan.StartTiltSteps)>>

(* ------------------------------- C37 ---------------------------------- *)
\* C37: whatever RunGridShot returns (nil, the context's error, the error
\* of a start move, of a tilt or pan move of the traversal, or of Shoot),
\* the last torque command it made is EnableMotors
C37_ExitsWithTorque ==
    Returned =>
        LET t == SelectSeq(cmds, IsTorque)
        IN /\ Len(t) > 0
           /\ t[Len(t)].op = "EnableMotors"
           /\ torque = "enable"
           /\ ret \in {"nil"} \cup CtxErrs \cup MoveErrs \cup ShootErrs

\* RunGridShot has returned the context's error from a boundary check after
\* it had disabled the motors for a shot
C37_Witness ==
    /\ Returned /\ ret \in CtxErrs
    /\ \E i \in 1..Len(cmds) : cmds[i].op = "DisableMotors"
    /\ cmds[Len(cmds)].op \in {"EnableMotors", "MovePan", "MoveTilt"}

(* ------------------------------- C38 ---------------------------------- *)
\* C38: with the rig's offset from the start corner taken as the sum of the
\* traversal moves made, the tilt offset stays between -(TiltRows - 1) x
\* TiltStepSize and 0 and the pan offset never decreases; every shot is
\* taken at a position (c x PanStepSize, -r x TiltStepSize) with c below
\* PanColumns and r below TiltRows, no two shots at the same position; and
\* a run that returns nil has taken a shot at every one of these positions
C38_GridCoverage ==
    LET tr == Traversal
        PanAt[i \in 0..Len(tr)] ==
            IF i = 0 THEN 0
            ELSE PanAt[i - 1]
                 + (IF tr[i].op = "MovePan" THEN tr[i].steps ELSE 0)
        TiltAt[i \in 0..Len(tr)] ==
            IF i = 0 THEN 0
            ELSE TiltAt[i - 1]
                 + (IF tr[i].op = "MoveTilt" THEN tr[i].steps ELSE 0)
        Shots == {i \in 1..Len(tr) : tr[i].op = "Shoot"}
        Grid == {<<c * plan.PanStepSize, -r * plan.TiltStepSize>> :
                    c \in 0..(plan.PanColumns - 1),
                    r \in 0..(plan.TiltRows - 1)}
    IN /\ \A i \in 1..Len(tr) :
             /\ TiltAt[i] <= 0
             /\ TiltAt[i] >= -(plan.TiltRows - 1) * plan.TiltStepSize
             /\ PanAt[i] >= PanAt[i - 1]
       /\ \A i \in Shots : <<PanAt[i], TiltAt[i]>> \in Grid
       /\ \A i, j \in Shots :
             <<PanAt[i], TiltAt[i]>> = <<PanAt[j], TiltAt[j]>> => i = j
       /\ (Returned /\ ret = "nil") =>
             {<<PanAt[i], TiltAt[i]>> : i \in Shots} = Grid

\* an uncancelled run over the largest grid has returned nil
C38_Witness ==
    /\ Returned /\ ret = "nil" /\ ctxErr = "nil"
    /\ plan.PanColumns = MaxCols /\ plan.TiltRows = MaxRows
    /\ plan.PanStepSize > 0 /\ plan.TiltStepSize > 0
    /\ Len(SelectSeq(Traversal, LAMBDA c : c.op = "Shoot")) = MaxCols * MaxRows

(* ------------------------------- C39 ---------------------------------- *)
\* C39: from the 202 answer of a Start until the run's deferred cleanup
\* clears it, the stored handle is that run's; a Cancel that reads the
\* handle in this span is not answered 409: it goes on with that run's
\* handle, calls it (the run's context is done from then on) and answers
\* 200; no Cancel is answered 409 while a sequencer executes
C39_CancelAfterAccept ==
    /\ [](\A r \in Reqs :
            (status[r] = 202 /\ gpc[r] \in {"run", "publish", "clearCancel"})
                => captureCancel = r)
    /\ [][\A c \in Cancels :
            /\ (cpc[c] = "idle" /\ cpc'[c] # "idle") =>
                  /\ \A r \in Reqs :
                        (/\ status[r] = 202
                         /\ gpc[r] \in {"run", "publish", "clearCancel"})
                        => cpc'[c] = "call" /\ clocal'[c] = r
                  /\ cstatus'[c] = 409 => \A r \in Reqs : gpc[r] # "run"
            /\ (cpc[c] = "call" /\ cpc'[c] # "call") =>
                  cstatus'[c] = 200 /\ ctxDone'[clocal[c]]]_vars

\* a Cancel sent after the 202 answer, while the sequencer was executing,
\* has been answered 200 and the run's context is done
C39_Witness ==
    \E c \in Cancels, r \in Reqs :
        /\ status[r] = 202 /\ gpc[r] = "run"
        /\ cpc[c] = "done" /\ cstatus[c] = 200 /\ clocal[c] = r
        /\ ctxDone[r] /\ signalledInRun[r]

====
